---- MODULE Spec2Model ----
(***************************************************************************)
(* TuxSplit: the duration-formatting engine.                               *)
(*                                                                         *)
(*   formatters/time.rs   TimeFormat::get_pattern / compute_pattern        *)
(*   utils/time.rs        format_time_span, append_number, append_fraction,*)
(*                        format_split_time, format_segment_time,          *)
(*                        format_timer                                     *)
(*   utils/utils.rs       format_timer, format_duration (fixed pattern)    *)
(*   ui/ui.rs             build_splits_list, calculate_split_label_classes *)
(*   ui/info/mod.rs       PrevSegmentDiffInfo, PrevSegmentBestInfo         *)
(*                                                                         *)
(* Strings are sequences of one-character strings (<<"m", ":", "s">> is    *)
(* "m:s").  Option<T> is a sequence of length 0 (None) or 1 (Some(x)).     *)
(* A TimeSpan / time::Duration is its whole number of milliseconds, the    *)
(* granularity at which every function modelled here reads it.             *)
(***************************************************************************)
EXTENDS Integers, Sequences, FiniteSets, TLC

VARIABLES
    format,        \* the TimeFormat of the configuration (config.format.*)
    op,            \* the operation performed last ("init" before any)
    total_millis,  \* the Option<i64> handed to get_pattern by that operation
    computed,      \* whether that get_pattern call ran compute_pattern
    ret_pattern,   \* the pattern get_pattern returned / format_time_span was given
    span,          \* the Option<TimeSpan> that was rendered (milliseconds)
    out,           \* the string the operation returned
    timer,         \* what the livesplit_core::Timer answers to the reads of the UI
    calls,         \* the classifier calls of the last operation, with their results
    rows,          \* the rows build_splits_list returned
    panicked,      \* whether the last operation hit a failing assert!
    label,         \* the value Label of an AdditionalInfo: its text and CSS classes
    refresh,       \* the locals the refresh closure of ui/timer/timer.rs captures
    splits         \* config.general.splits, the configured splits path

\* the variables of the user interface
ui_vars == <<timer, calls, rows, panicked, label, refresh, splits>>

vars == <<format, op, total_millis, computed, ret_pattern, span, out,
          timer, calls, rows, panicked, label, refresh, splits>>

(***************************************************************************)
(* Bounds and program constants                                            *)
(***************************************************************************)
\* decimal_places is a u8; the model explores 0 .. MaxDecimalPlaces.
MaxDecimalPlaces == 4

MS_PER_SECOND == 1000
MS_PER_MINUTE == 60000
MS_PER_HOUR == 3600000
MINUTES_PER_HOUR == 60
SECONDS_PER_MINUTE == 60
\* width of a field that follows other output (append_number)
FOLLOWING_WIDTH == 2
\* digits of the millisecond remainder (append_fraction)
FRACTION_DIGITS == 3

(***************************************************************************)
(* Option and string helpers                                               *)
(***************************************************************************)
None == <<>>
Some(x) == <<x>>
is_none(o) == Len(o) = 0
is_some(o) == Len(o) = 1
unwrap(o) == o[1]

DigitChars == <<"0", "1", "2", "3", "4", "5", "6", "7", "8", "9">>

\* i64::abs
abs(x) == IF x < 0 THEN -x ELSE x

\* "0".repeat(n)
RECURSIVE repeat(_, _)
repeat(ch, n) == IF n <= 0 THEN <<>> ELSE <<ch>> \o repeat(ch, n - 1)

\* i64::to_string
RECURSIVE to_string(_)
to_string(value) ==
    IF value < 0 THEN <<"-">> \o to_string(-value)
    ELSE IF value < 10 THEN <<DigitChars[value + 1]>>
    ELSE to_string(value \div 10) \o <<DigitChars[(value % 10) + 1]>>

\* format!("{:0width$}", value): sign-aware zero padding to at least `width`.
zero_padded(value, width) ==
    IF value < 0
    THEN <<"-">> \o repeat("0", width - 1 - Len(to_string(-value))) \o to_string(-value)
    ELSE repeat("0", width - Len(to_string(value))) \o to_string(value)

(***************************************************************************)
(* formatters/time.rs                                                      *)
(***************************************************************************)
\* struct TimeFormat
TimeFormat(h, m, s, d, places, dyn, cache) ==
    [show_hours |-> h, show_minutes |-> m, show_seconds |-> s,
     show_decimals |-> d, decimal_places |-> places, dynamic |-> dyn,
     cached_pattern |-> cache]

\* impl Default for TimeFormat
TimeFormatDefault == TimeFormat(TRUE, TRUE, TRUE, TRUE, 2, FALSE, None)

\* the configured visibility of each component (lines 47-50)
static_visibility(self) ==
    [show_hours |-> self.show_hours,
     show_minutes |-> self.show_minutes,
     show_seconds |-> self.show_seconds,
     show_decimals |-> self.show_decimals]

\* Mutant of bucket_visibility: `<=` for `<` at both bucket limits.
bucket_visibility_inclusive(self, ms) ==
    IF ms <= MS_PER_MINUTE
    THEN [static_visibility(self) EXCEPT !.show_hours = FALSE, !.show_minutes = FALSE]
    ELSE IF ms <= MS_PER_HOUR
    THEN [static_visibility(self) EXCEPT
            !.show_hours = FALSE,
            !.show_decimals = IF self.show_minutes /\ self.show_seconds THEN FALSE ELSE @]
    ELSE [static_visibility(self) EXCEPT
            !.show_decimals = IF self.show_minutes /\ self.show_seconds THEN FALSE ELSE @]

\* Mutant of bucket_visibility: under a minute the decimals are hidden as well.
bucket_visibility_seconds_only(self, ms) ==
    IF ms < MS_PER_MINUTE
    THEN [static_visibility(self) EXCEPT
            !.show_hours = FALSE, !.show_minutes = FALSE, !.show_decimals = FALSE]
    ELSE IF ms < MS_PER_HOUR
    THEN [static_visibility(self) EXCEPT
            !.show_hours = FALSE,
            !.show_decimals = IF self.show_minutes /\ self.show_seconds THEN FALSE ELSE @]
    ELSE [static_visibility(self) EXCEPT
            !.show_decimals = IF self.show_minutes /\ self.show_seconds THEN FALSE ELSE @]

\* compute_pattern, lines 54-71: the visibility in the bucket of ms.
bucket_visibility(self, ms) ==
    IF ms < MS_PER_MINUTE
    THEN \* Under a minute: hide hours and minutes
         [static_visibility(self) EXCEPT !.show_hours = FALSE, !.show_minutes = FALSE]
    ELSE IF ms < MS_PER_HOUR
    THEN \* Under an hour: hide hours; minutes and seconds shown suppress decimals
         [static_visibility(self) EXCEPT
            !.show_hours = FALSE,
            !.show_decimals = IF self.show_minutes /\ self.show_seconds THEN FALSE ELSE @]
    ELSE \* 1 hour or more: keep hours
         [static_visibility(self) EXCEPT
            !.show_decimals = IF self.show_minutes /\ self.show_seconds THEN FALSE ELSE @]

\* Mutant of resolve_visibility: the `if self.dynamic` test is lost, so the
\* magnitude also hides fields of a static format.
resolve_visibility_always_dynamic(self, ms_opt) ==
    IF is_some(ms_opt)
    THEN bucket_visibility(self, unwrap(ms_opt))
    ELSE static_visibility(self)

\* compute_pattern, lines 47-73: the visibility of each component.
resolve_visibility(self, ms_opt) ==
    IF self.dynamic /\ is_some(ms_opt)
    THEN bucket_visibility(self, unwrap(ms_opt))
    ELSE static_visibility(self)

\* Mutant of push_sep: the separator is pushed whether or not a field precedes.
push_sep_unconditional(sep, pat) == Append(pat, sep)

\* the closure push_sep
push_sep(sep, pat) == IF pat # <<>> THEN Append(pat, sep) ELSE pat

\* '.' followed by decimal_places times 'd' (the two for loops)
push_decimals(pat, places) == Append(pat, ".") \o repeat("d", places)

\* Mutant of fallback_pattern: no fallback, an empty pattern is returned as is.
fallback_pattern_missing(self, pattern) == pattern

\* compute_pattern, lines 100-114: fallback to seconds if nothing was selected.
fallback_pattern(self, pattern) ==
    IF pattern = <<>>
    THEN IF self.show_seconds
         THEN LET p == <<"s">>
              IN  IF self.show_decimals /\ self.decimal_places > 0
                  THEN push_decimals(p, self.decimal_places)
                  ELSE p
         ELSE <<"s">>
    ELSE pattern

compute_pattern(self, ms_opt) ==
    LET vis == resolve_visibility(self, ms_opt)
        p0 == <<>>
        p1 == IF vis.show_hours THEN Append(p0, "h") ELSE p0
        p2 == IF vis.show_minutes THEN Append(push_sep(":", p1), "m") ELSE p1
        p3 == IF vis.show_seconds THEN Append(push_sep(":", p2), "s") ELSE p2
        p4 == IF vis.show_decimals /\ self.decimal_places > 0
              THEN push_decimals(p3, self.decimal_places)
              ELSE p3
    IN  fallback_pattern(self, p4)

get_pattern_dynamic_keeps_cache(self, ms_opt) ==
    LET recompute == self.dynamic \/ is_none(self.cached_pattern)
        after == IF is_none(self.cached_pattern)
                 THEN [self EXCEPT !.cached_pattern = Some(compute_pattern(self, ms_opt))]
                 ELSE self
    IN  [self |-> after,
         ret |-> IF recompute THEN compute_pattern(self, ms_opt)
                 ELSE unwrap(after.cached_pattern),
         computed |-> recompute]

\* get_pattern(&mut self, total_millis): the TimeFormat afterwards, the
\* returned pattern, and whether compute_pattern ran.
get_pattern(self, ms_opt) ==
    LET recompute == self.dynamic \/ is_none(self.cached_pattern)
        after == IF recompute
                 THEN [self EXCEPT !.cached_pattern = Some(compute_pattern(self, ms_opt))]
                 ELSE self
    IN  [self |-> after, ret |-> unwrap(after.cached_pattern), computed |-> recompute]

(***************************************************************************)
(* utils/time.rs                                                           *)
(***************************************************************************)
(* A TimeSpan is held here as the whole number of milliseconds it was made   *)
(* from (span_ms of the tests, Duration::milliseconds of the callers).  The  *)
(* span stores whole seconds s and nanoseconds; for v = |ms| = 1000 s + r:   *)
(*   total_seconds()      = fl(s + fl(r * 10^6 / 10^9))   two f64 roundings  *)
(*   total_milliseconds() = fl(1000.0 * total_seconds())  a third            *)
(* and the cast to i64 cuts the product towards zero.  The result is v or    *)
(* v - 1.  The roundings are followed on the binary expansion of r / 1000,   *)
(* whose digits come from long division (remainders stay below 1000):        *)
(*   - the fraction keeps 53 digits from its first 1 digit (place p), that   *)
(*     is the places up to 52 + p, and is rounded up when the remainder      *)
(*     left there exceeds 500 (no tie: the remainder is a multiple of 8);    *)
(*   - the sum with s (binary exponent k) keeps the places up to 52 - k and  *)
(*     is rounded to nearest, ties to even, on the places that are left;     *)
(*   - the product is then short of v by m2 * 2^(k - 52), with               *)
(*     m2 = ((r * 2^(52 - k)) mod 1000) - 1000 * (sum rounded up), and it    *)
(*     rounds to a double below v when that exceeds half the spacing of the  *)
(*     doubles below v: m2 > 256 when v <= 1024 * 2^k, else m2 > 512.        *)
(* 1001 ms reads as 1000, 2030 as 2029, 1118 as 1117, 1360 as 1359 and       *)
(* 15944 as 15943; 3145 ms reads as 3145.                                    *)

\* 2^n mod 1000
RECURSIVE pow2_mod_1000(_)
pow2_mod_1000(n) == IF n = 0 THEN 1 ELSE (2 * pow2_mod_1000(n - 1)) % 1000

\* the largest k >= 0 with 2^k <= w, for w >= 1
RECURSIVE floor_log2(_)
floor_log2(w) == IF w < 2 THEN 0 ELSE 1 + floor_log2(w \div 2)

\* the smallest j >= 0 with w * 2^j >= 1000, for 1 <= w < 1000
RECURSIVE doublings_to_1000(_)
doublings_to_1000(w) == IF w >= 1000 THEN 0 ELSE 1 + doublings_to_1000(2 * w)

\* (r * 2^n) mod 1000: what long division of r by 1000 leaves after n binary places
remainder_after(r, n) == (r * pow2_mod_1000(n)) % 1000

\* the binary digit of r / 1000 at place i (weight 2^-i), i >= 1
fraction_bit(r, i) == 2 * remainder_after(r, i - 1) >= 1000

\* nanoseconds as f64 / 1e9: whether the quotient is rounded up, 1 <= r < 1000
fraction_rounds_up(r) == remainder_after(r, 52 + doublings_to_1000(r)) > 500

\* seconds as f64 + fraction: whether the sum is rounded up at place 52 - k,
\* for s >= 1 and 1 <= r < 1000
sum_rounds_up(s, r) ==
    LET last == 52 - floor_log2(s)
        fraction_last == 52 + doublings_to_1000(r)
        first_left == fraction_bit(r, last + 1)
        rest == (last + 2)..fraction_last
        odd == fraction_bit(r, last)
    IN  IF fraction_rounds_up(r)
        THEN \/ first_left
             \/ (\A i \in rest : fraction_bit(r, i)) /\ odd
        ELSE first_left /\ ((\E i \in rest : fraction_bit(r, i)) \/ odd)

\* whether the f64 product 1000.0 * total_seconds() falls below v, for v >= 0
f64_product_falls_short(v) ==
    LET s == v \div 1000
        r == v % 1000
    IN  IF r = 0 THEN FALSE
        ELSE LET k == IF s = 0 THEN 0 - doublings_to_1000(r) ELSE floor_log2(s)
                 up == IF s = 0 THEN fraction_rounds_up(r) ELSE sum_rounds_up(s, r)
                 half_spacing == 2^(floor_log2(v - 1) - k - 1)
             IN  \* m2 > half_spacing; a sum rounded up makes m2 negative
                 remainder_after(r, 52 - k) > half_spacing /\ ~up

\* span.total_milliseconds() as i64, for a span of span_ms milliseconds
total_milliseconds(span_ms) ==
    LET v == abs(span_ms)
        cut == IF f64_product_falls_short(v) THEN v - 1 ELSE v
    IN  IF span_ms < 0 THEN 0 - cut ELSE cut

\* Mutant of abs_ms: the `.abs()` is lost.
abs_ms_signed(total_ms) == total_milliseconds(total_ms)

\* let total_ms = span.total_milliseconds(); let abs_ms = total_ms.abs() as i64;
abs_ms(total_ms) == abs(total_milliseconds(total_ms))

\* hours, minutes, seconds, millis of format_time_span
decompose(total_ms) ==
    LET a == abs_ms(total_ms)
    IN  [hours |-> a \div MS_PER_HOUR,
         minutes |-> (a \div MS_PER_MINUTE) % MINUTES_PER_HOUR,
         seconds |-> (a \div MS_PER_SECOND) % SECONDS_PER_MINUTE,
         millis |-> a % MS_PER_SECOND]

\* the inner while loop: how many consecutive chars equal pattern[i] start at i
RECURSIVE run_length(_, _)
run_length(pattern, i) ==
    IF i < Len(pattern) /\ pattern[i + 1] = pattern[i]
    THEN 1 + run_length(pattern, i + 1)
    ELSE 1

\* the outer while loop's tokens: runs of the same character, <<ch, count>>
RECURSIVE tokenize_from(_, _)
tokenize_from(pattern, i) ==
    IF i > Len(pattern) THEN <<>>
    ELSE LET count == run_length(pattern, i)
         IN  <<[ch |-> pattern[i], count |-> count]>> \o tokenize_from(pattern, i + count)

tokenize(pattern) == tokenize_from(pattern, 1)

\* Mutant of append_number: always_show is ignored, a leading zero value is
\* skipped for the seconds too.
append_number_ignores_always_show(o, value, always_show) ==
    IF value <= 0 /\ o = <<>>
    THEN o
    ELSE o \o zero_padded(value,
                          IF o = <<>> THEN Len(to_string(value)) ELSE FOLLOWING_WIDTH)

\* Mutant of append_number: a leading zero value is never skipped.
append_number_never_skips(o, value, always_show) ==
    o \o zero_padded(value,
                     IF o = <<>> THEN Len(to_string(value)) ELSE FOLLOWING_WIDTH)

\* fn append_number(out, value, always_show)
append_number(o, value, always_show) ==
    IF value <= 0 /\ o = <<>> /\ ~always_show
    THEN o
    ELSE o \o zero_padded(value,
                          IF o = <<>> THEN Len(to_string(value)) ELSE FOLLOWING_WIDTH)

\* Mutant of append_fraction: the remainder is rounded to `width` digits
\* instead of cut.
append_fraction_rounded(o, millis, width) ==
    IF width < FRACTION_DIGITS
    THEN o \o zero_padded((millis + 5 * 10^(FRACTION_DIGITS - width - 1))
                              \div 10^(FRACTION_DIGITS - width), width)
    ELSE o \o zero_padded(millis, FRACTION_DIGITS)
           \o repeat("0", width - FRACTION_DIGITS)

\* fn append_fraction(out, millis, width)
append_fraction(o, millis, width) ==
    LET base == zero_padded(millis, FRACTION_DIGITS)
    IN  IF width <= FRACTION_DIGITS
        THEN o \o SubSeq(base, 1, width)
        ELSE o \o base \o repeat("0", width - FRACTION_DIGITS)

\* Mutant of append_literal: the literal is pushed onto an empty output too.
append_literal_unconditional(o, ch, count) == o \o repeat(ch, count)

\* the `_ =>` arm: literal character(s), pushed only after some output
RECURSIVE append_literal(_, _, _)
append_literal(o, ch, count) ==
    IF count = 0 THEN o
    ELSE append_literal(IF o # <<>> THEN Append(o, ch) ELSE o, ch, count - 1)

\* Mutant of append_token: the run length of h, m, s is taken as the width of
\* a field that follows other output.
append_token_run_width(o, tok, f) ==
    LET number(value, always_show) ==
            IF value <= 0 /\ o = <<>> /\ ~always_show
            THEN o
            ELSE o \o zero_padded(value,
                                  IF o = <<>> THEN Len(to_string(value)) ELSE tok.count)
    IN  CASE tok.ch = "h" -> number(f.hours, FALSE)
          [] tok.ch = "m" -> number(f.minutes, FALSE)
          [] tok.ch = "s" -> number(f.seconds, TRUE)
          [] tok.ch = "d" -> append_fraction(o, f.millis, tok.count)
          [] OTHER -> append_literal(o, tok.ch, tok.count)

\* match ch { ... }
append_token(o, tok, f) ==
    CASE tok.ch = "h" -> append_number(o, f.hours, FALSE)
      [] tok.ch = "m" -> append_number(o, f.minutes, FALSE)
      [] tok.ch = "s" -> append_number(o, f.seconds, TRUE)
      [] tok.ch = "d" -> append_fraction(o, f.millis, tok.count)
      [] OTHER -> append_literal(o, tok.ch, tok.count)

\* `out` after the first k tokens of the pattern have been handled
RECURSIVE render_tokens(_, _, _)
render_tokens(tokens, k, f) ==
    IF k = 0 THEN <<>>
    ELSE append_token(render_tokens(tokens, k - 1, f), tokens[k], f)

\* pub fn format_time_span(span, pattern)
format_time_span(total_ms, pattern) ==
    LET tokens == tokenize(pattern)
    IN  render_tokens(tokens, Len(tokens), decompose(total_ms))

\* pub fn format_time_span_opt(span, pattern)
format_time_span_opt(span_opt, pattern) ==
    IF is_some(span_opt)
    THEN format_time_span(unwrap(span_opt), pattern)
    ELSE <<"-", "-">>

\* pub fn format_duration(duration, pattern)
format_duration(duration, pattern) == format_time_span(duration, pattern)

\* pub fn format_duration_opt(duration, pattern)
format_duration_opt(duration_opt, pattern) ==
    IF is_some(duration_opt)
    THEN format_duration(unwrap(duration_opt), pattern)
    ELSE <<"-", "-">>

\* pub fn format_split_time(time, timer, config): the split format afterwards,
\* the pattern used and the returned string.  use_game_time is
\* config.is_game_time() || timer.current_timing_method() == GameTime.
format_split_time(time, use_game_time, self) ==
    LET span_opt == IF use_game_time THEN time.game_time ELSE time.real_time
        total_ms == IF is_some(span_opt)
                    THEN Some(total_milliseconds(unwrap(span_opt)))
                    ELSE None
        got == get_pattern(self, total_ms)
    IN  [self |-> got.self, pattern |-> got.ret, computed |-> got.computed,
         total_ms |-> total_ms, span |-> span_opt,
         ret |-> format_time_span_opt(span_opt, got.ret)]

\* pub fn format_segment_time(duration, config)
format_segment_time(duration, self) ==
    LET ms_i64 == duration
        total_ms == Some(abs(ms_i64))
        got == get_pattern(self, total_ms)
    IN  [self |-> got.self, pattern |-> got.ret, computed |-> got.computed,
         total_ms |-> total_ms, span |-> Some(duration),
         ret |-> format_duration(duration, got.ret)]

(***************************************************************************)
(* time::Duration arithmetic                                               *)
(*                                                                         *)
(* time::Duration is signed.  checked_add / checked_sub answer None only   *)
(* when the result leaves the range of the type (about 2.9e11 years), a    *)
(* magnitude no timer value reaches, so every call modelled here answers   *)
(* Some of the exact signed result.                                        *)
(***************************************************************************)
\* Duration::checked_add
checked_add(a, b) == Some(a + b)

checked_sub_saturating(a, b) == IF a - b < 0 THEN Some(0) ELSE Some(a - b)

\* Duration::checked_sub
checked_sub(a, b) == Some(a - b)

\* Option<Duration>::unwrap_or_default: Duration::ZERO for None
unwrap_or_default(o) == IF is_some(o) THEN unwrap(o) ELSE 0

\* timer.current_timing_method() == TimingMethod::GameTime
is_game_time(tm) == tm.current_timing_method = "GameTime"

\* the chain of format_timer and build_splits_list:
\* current_attempt_duration + offset - pause_time - loading_times
current_duration(tm) ==
    LET current_dur ==
            unwrap_or_default(checked_add(tm.current_attempt_duration, tm.offset))
        paused_time == unwrap_or_default(tm.pause_time)
        loading_times == IF is_game_time(tm) THEN tm.loading_times ELSE 0
    IN  unwrap_or_default(checked_sub(
            unwrap_or_default(checked_sub(current_dur, paused_time)),
            loading_times))

\* the sign of format_timer: if dur < ZERO { format!("-{out}") } else { out }
format_timer_sign(dur, rendered) == IF dur < 0 THEN <<"-">> \o rendered ELSE rendered

\* pub fn format_timer(timer, config), utils/time.rs
format_timer(tm, self) ==
    LET dur == current_duration(tm)
        ms_i64 == dur
        total_ms == Some(abs(ms_i64))
        got == get_pattern(self, total_ms)
    IN  [self |-> got.self, pattern |-> got.ret, computed |-> got.computed,
         total_ms |-> total_ms, span |-> Some(dur),
         ret |-> format_timer_sign(dur, format_duration(dur, got.ret))]

(***************************************************************************)
(* utils/utils.rs: the formatters of ui/ui.rs, with one fixed pattern      *)
(***************************************************************************)
\* pub const DEFAULT_TIME_FORMAT: &str = "h:m:s.dd"
DEFAULT_TIME_FORMAT == <<"h", ":", "m", ":", "s", ".", "d", "d">>

\* pub fn format_duration(duration), utils/utils.rs
utils_format_duration(duration) == format_time_span(duration, DEFAULT_TIME_FORMAT)

\* pub fn format_split_time(time, timer, config), utils/utils.rs
utils_format_split_time(time, tm, config_is_game_time) ==
    LET use_game_time == config_is_game_time \/ is_game_time(tm)
        span_opt == IF use_game_time THEN time.game_time ELSE time.real_time
    IN  format_time_span_opt(span_opt, DEFAULT_TIME_FORMAT)

\* pub fn format_timer(timer, _config), utils/utils.rs
utils_format_timer(tm) ==
    LET dur == unwrap_or_default(checked_add(tm.current_attempt_duration, tm.offset))
    IN  [span |-> Some(dur), ret |-> utils_format_duration(dur)]

(***************************************************************************)
(* ui/ui.rs: the split classifier                                          *)
(***************************************************************************)
goldsplit_check_ignores_split(split_duration, goldsplit_duration, running) ==
    IF ~running /\ goldsplit_duration # 0
    THEN [classes |-> <<"goldsplit">>, returned |-> FALSE]
    ELSE IF ~running /\ goldsplit_duration = 0
    THEN [classes |-> <<"goldsplit">>, returned |-> TRUE]
    ELSE [classes |-> <<>>, returned |-> FALSE]

goldsplit_check_while_running(split_duration, goldsplit_duration, running) ==
    IF goldsplit_duration # 0 /\ split_duration < goldsplit_duration
    THEN [classes |-> <<"goldsplit">>, returned |-> FALSE]
    ELSE IF goldsplit_duration = 0
    THEN [classes |-> <<"goldsplit">>, returned |-> TRUE]
    ELSE [classes |-> <<>>, returned |-> FALSE]

goldsplit_check_first_split_falls_through(split_duration, goldsplit_duration, running) ==
    IF ~running /\ goldsplit_duration # 0 /\ split_duration < goldsplit_duration
    THEN [classes |-> <<"goldsplit">>, returned |-> FALSE]
    ELSE IF ~running /\ goldsplit_duration = 0
    THEN [classes |-> <<"goldsplit">>, returned |-> FALSE]
    ELSE [classes |-> <<>>, returned |-> FALSE]

\* "First we check if its goldsplit": the classes the if / else if pushes, and
\* whether the function returned there (only the else-if branch returns)
goldsplit_check(split_duration, goldsplit_duration, running) ==
    IF ~running /\ goldsplit_duration # 0 /\ split_duration < goldsplit_duration
    THEN [classes |-> <<"goldsplit">>, returned |-> FALSE]
    ELSE IF ~running /\ goldsplit_duration = 0
    THEN [classes |-> <<"goldsplit">>, returned |-> TRUE]
    ELSE [classes |-> <<>>, returned |-> FALSE]

ahead_or_behind_strict(comparison_duration, split_duration, diff) ==
    IF diff < 0
    THEN IF split_duration < comparison_duration
         THEN <<"greensplit">> ELSE <<"lostgreensplit">>
    ELSE IF diff > 0
    THEN IF split_duration < comparison_duration
         THEN <<"gainedredsplit">> ELSE <<"redsplit">>
    ELSE <<>>

\* "are we ahead or behind comparison", "are we gaining or losing time"
ahead_or_behind(comparison_duration, split_duration, diff) ==
    IF diff < 0
    THEN IF split_duration <= comparison_duration
         THEN <<"greensplit">> ELSE <<"lostgreensplit">>
    ELSE IF diff > 0
    THEN IF split_duration <= comparison_duration
         THEN <<"gainedredsplit">> ELSE <<"redsplit">>
    ELSE <<>>

\* fn calculate_split_label_classes(timer, comparison_duration, split_duration,
\*                                  diff, goldsplit_duration, running)
calculate_split_label_classes(comparison_duration, split_duration, diff, goldsplit_duration, running) ==
    LET first == goldsplit_check(split_duration, goldsplit_duration, running)
    IN  IF first.returned
        THEN first.classes
        ELSE first.classes \o ahead_or_behind(comparison_duration, split_duration, diff)

\* one classifier call, as the operations record it
ClassifierCall(site, comparison_duration, split_duration, diff, goldsplit_duration, running, classes) ==
    [site |-> site,
     comparison_duration |-> comparison_duration,
     split_duration |-> split_duration,
     diff |-> diff,
     goldsplit_duration |-> goldsplit_duration,
     running |-> running,
     classes |-> classes]

(***************************************************************************)
(* ui/ui.rs: build_splits_list                                             *)
(*                                                                         *)
(* A timer answers the reads of the UI with a record:                      *)
(*   segments                  the run's segments, each with its           *)
(*                             comparison, split_time, best_segment_time   *)
(*                             and best_segments Time (real_time and       *)
(*                             game_time, each an Option)                  *)
(*   current_split_index       Option<usize>                               *)
(*   current_attempt_duration, offset, pause_time (Option),                *)
(*   current_timing_method, loading_times                                  *)
(* Segment indices are those of the source, from 0.                        *)
(***************************************************************************)
\* timer.run().segments()[index]
segment_at(tm, index) == tm.segments[index + 1]

\* the sign in front of a rendered difference: "+", "-" or "~"
sign_of(diff) == IF diff > 0 THEN "+" ELSE IF diff < 0 THEN "-" ELSE "~"

\* format!("{}{}", sign, format_duration(&diff.abs()))
signed_value(diff) == <<sign_of(diff)>> \o utils_format_duration(abs(diff))

\* let previous_comparison_duration = if index > 0 { .. } else { ZERO }
previous_comparison_duration_of(tm, index) ==
    IF index > 0
    THEN unwrap_or_default(segment_at(tm, index - 1).comparison.real_time)
    ELSE 0

\* let previous_comparison_time = if index > 0 { .. } else { ZERO }:
\* the split time of the previous segment in this attempt
previous_comparison_time_of(tm, index) ==
    IF index > 0
    THEN unwrap_or_default(segment_at(tm, index - 1).split_time.real_time)
    ELSE 0

\* let segment_comparison_duration = (segment_comparison - previous).abs()
segment_comparison_duration_of(tm, index) ==
    abs(unwrap_or_default(checked_sub(
        unwrap_or_default(segment_at(tm, index).comparison.real_time),
        previous_comparison_duration_of(tm, index))))

\* assert!(current_duration > previous_comparison_time), reached when index > 0
assert_holds(tm, index) ==
    index = 0 \/ current_duration(tm) > previous_comparison_time_of(tm, index)

\* the body of `if current_segment_index == index`
running_row(tm, index, value) ==
    LET segment == segment_at(tm, index)
        segment_comparison == unwrap_or_default(segment.comparison.real_time)
        goldsplit == unwrap_or_default(segment.best_segment_time.real_time)
        segment_comparison_duration == segment_comparison_duration_of(tm, index)
        diff == unwrap_or_default(checked_sub(current_duration(tm), segment_comparison))
        split_running_time ==
            IF index = 0
            THEN current_duration(tm)
            ELSE unwrap_or_default(checked_sub(current_duration(tm),
                                               previous_comparison_time_of(tm, index)))
        label_classes ==
            calculate_split_label_classes(segment_comparison_duration,
                                          split_running_time, diff, goldsplit, TRUE)
    IN  IF ~assert_holds(tm, index)
        THEN [panicked |-> TRUE, value |-> <<>>, segment_classes |-> <<>>,
              label_classes |-> <<>>, calls |-> <<>>]
        ELSE IF diff > 0 \/ (goldsplit # 0 /\ split_running_time >= goldsplit)
        THEN [panicked |-> FALSE, value |-> signed_value(diff),
              segment_classes |-> <<"current-segment">>,
              label_classes |-> label_classes,
              calls |-> <<ClassifierCall("running", segment_comparison_duration,
                                         split_running_time, diff, goldsplit, TRUE,
                                         label_classes)>>]
        ELSE [panicked |-> FALSE, value |-> value,
              segment_classes |-> <<"current-segment">>,
              label_classes |-> <<>>, calls |-> <<>>]

finished_diff_segment_relative(tm, index) ==
    unwrap_or_default(checked_sub(
        unwrap_or_default(checked_sub(
            unwrap_or_default(segment_at(tm, index).split_time.real_time),
            previous_comparison_time_of(tm, index))),
        segment_comparison_duration_of(tm, index)))

\* let diff = split_time.checked_sub(segment_comparison).unwrap_or_default()
finished_diff(tm, index) ==
    unwrap_or_default(checked_sub(
        unwrap_or_default(segment_at(tm, index).split_time.real_time),
        unwrap_or_default(segment_at(tm, index).comparison.real_time)))

\* the body of `if current_segment_index > index`
finished_row(tm, index, config) ==
    LET segment == segment_at(tm, index)
        goldsplit == unwrap_or_default(segment.best_segment_time.real_time)
        segment_comparison_duration == segment_comparison_duration_of(tm, index)
        split_time == unwrap_or_default(segment.split_time.real_time)
        diff == finished_diff(tm, index)
        split_duration ==
            unwrap_or_default(checked_sub(split_time, previous_comparison_time_of(tm, index)))
        label_classes ==
            calculate_split_label_classes(segment_comparison_duration,
                                          split_duration, diff, goldsplit, FALSE)
    IN  [panicked |-> FALSE,
         value |-> IF config.split_format = Some("Time")
                   THEN utils_format_split_time(segment.split_time, tm, config.is_game_time)
                   ELSE signed_value(diff),
         segment_classes |-> <<>>,
         label_classes |-> label_classes,
         calls |-> <<ClassifierCall("finished", segment_comparison_duration,
                                    split_duration, diff, goldsplit, FALSE,
                                    label_classes)>>]

\* one turn of `for (index, segment) in segments.iter().enumerate()`
split_row(tm, index, config) ==
    LET segment == segment_at(tm, index)
        value == utils_format_split_time(segment.comparison, tm, config.is_game_time)
    IN  IF is_some(tm.current_split_index) /\ unwrap(tm.current_split_index) = index
        THEN running_row(tm, index, value)
        ELSE IF is_some(tm.current_split_index) /\ unwrap(tm.current_split_index) > index
        THEN finished_row(tm, index, config)
        ELSE [panicked |-> FALSE, value |-> value, segment_classes |-> <<>>,
              label_classes |-> <<>>, calls |-> <<>>]

\* the classifier calls of the rows 0 .. n-1, in order
RECURSIVE calls_of_rows(_, _)
calls_of_rows(built, n) ==
    IF n = 0 THEN <<>> ELSE calls_of_rows(built, n - 1) \o built[n].calls

\* fn build_splits_list(timer, config) -> Vec<adw::ActionRow>; a failing assert!
\* unwinds out of the loop and no row is returned
build_splits_list(tm, config) ==
    LET built == [i \in 1..Len(tm.segments) |-> split_row(tm, i - 1, config)]
        failed == {i \in 1..Len(tm.segments) : built[i].panicked}
    IN  IF failed # {}
        THEN [panicked |-> TRUE, rows |-> <<>>,
              calls |-> calls_of_rows(built, (CHOOSE i \in failed : TRUE) - 1)]
        ELSE [panicked |-> FALSE,
              rows |-> [i \in 1..Len(tm.segments) |->
                           [value |-> built[i].value,
                            segment_classes |-> built[i].segment_classes,
                            label_classes |-> built[i].label_classes]],
              calls |-> calls_of_rows(built, Len(tm.segments))]

(***************************************************************************)
(* utils::comparisons, as ui/info/mod.rs calls it.  The module is not part *)
(* of the sources at hand; its functions are read as the reads of the      *)
(* timer that build_splits_list spells out inline, and the classifier as   *)
(* the one-tag classifier of the specification.                            *)
(***************************************************************************)
\* segment_comparison_time(segment, timer)
segment_comparison_time(segment, tm) == unwrap_or_default(segment.comparison.real_time)

\* segment_split_time(segment, timer)
segment_split_time(segment, tm) == unwrap_or_default(segment.split_time.real_time)

\* best_segment_duration(segment, timer)
best_segment_duration(segment, tm) == unwrap_or_default(segment.best_segment_time.real_time)

\* segment_best_time(segment, timer): the segment's time in the best-segments comparison
segment_best_time(segment, tm) == unwrap_or_default(segment.best_segments.real_time)

\* previous_comparison_values(timer, index)
\*   -> (previous_comparison_duration, previous_split_time)
previous_comparison_values(tm, index) ==
    <<previous_comparison_duration_of(tm, index), previous_comparison_time_of(tm, index)>>

\* best_comparison_values(timer, index) -> (previous_best_duration, previous_best_time)
best_comparison_values(tm, index) ==
    IF index > 0
    THEN <<unwrap_or_default(segment_at(tm, index - 1).best_segments.real_time),
           unwrap_or_default(segment_at(tm, index - 1).best_segments.real_time)>>
    ELSE <<0, 0>>

\* format_signed(diff, config)
format_signed(diff) == signed_value(diff)

\* classify_split_label(comparison_duration, split_duration, diff, gold_duration,
\*                      running) -> &'static str; "" stands for no class
classify_split_label(comparison_duration, split_duration, diff, gold_duration, running) ==
    IF ~running /\ (gold_duration = 0 \/ split_duration < gold_duration)
    THEN "goldsplit"
    ELSE IF diff < 0
    THEN IF split_duration <= comparison_duration THEN "greensplit" ELSE "lostgreensplit"
    ELSE IF diff > 0
    THEN IF split_duration <= comparison_duration THEN "gainedredsplit" ELSE "redsplit"
    ELSE ""

(***************************************************************************)
(* ui/info/mod.rs: PrevSegmentDiffInfo and PrevSegmentBestInfo             *)
(***************************************************************************)
\* Label::builder().label("").css_classes(["timer"]).build()
new_value_label(owner) == [owner |-> owner, text |-> <<>>, css_classes |-> {"timer"}]

\* self.value.set_label(text)
set_label(lbl, text) == [lbl EXCEPT !.text = text]

\* self.value.add_css_class(class): the class joins those the widget has
add_css_class(lbl, class) == [lbl EXCEPT !.css_classes = @ \cup {class}]

\* the Vec of classes a one-class answer stands for
classes_of(class) == IF class = "" THEN <<>> ELSE <<class>>

\* PrevSegmentDiffInfo::update(&mut self, timer, config)
prev_segment_diff_update(lbl, tm) ==
    IF is_some(tm.current_split_index) /\ unwrap(tm.current_split_index) > 0
    THEN
        LET index == unwrap(tm.current_split_index) - 1
            segment == segment_at(tm, index)
            comparison_time == segment_comparison_time(segment, tm)
            previous == previous_comparison_values(tm, index)
            previous_comparison_duration == previous[1]
            previous_split_time == previous[2]
            segment_comparison_duration ==
                abs(unwrap_or_default(checked_sub(comparison_time,
                                                  previous_comparison_duration)))
            split_time == segment_split_time(segment, tm)
            diff ==
                unwrap_or_default(checked_sub(
                    unwrap_or_default(checked_sub(split_time, previous_split_time)),
                    segment_comparison_duration))
            gold_duration == best_segment_duration(segment, tm)
            split_duration == unwrap_or_default(checked_sub(split_time, previous_split_time))
            class == classify_split_label(segment_comparison_duration, split_duration,
                                          diff, gold_duration, FALSE)
        IN  IF split_time = 0
            THEN [label |-> set_label(lbl, <<>>), calls |-> <<>>]
            ELSE IF comparison_time # 0
            THEN [label |-> add_css_class(set_label(lbl, format_signed(diff)), class),
                  calls |-> <<ClassifierCall("prev_segment_diff",
                                             segment_comparison_duration, split_duration,
                                             diff, gold_duration, FALSE,
                                             classes_of(class))>>]
            ELSE [label |-> lbl, calls |-> <<>>]
    ELSE [label |-> set_label(lbl, <<>>), calls |-> <<>>]

\* PrevSegmentBestInfo::update(&mut self, timer, config)
prev_segment_best_update(lbl, tm) ==
    IF is_some(tm.current_split_index) /\ unwrap(tm.current_split_index) > 0
    THEN
        LET index == unwrap(tm.current_split_index) - 1
            segment == segment_at(tm, index)
            best_time == segment_best_time(segment, tm)
            previous_split_time == previous_comparison_values(tm, index)[2]
            previous_best == best_comparison_values(tm, index)
            previous_best_duration == previous_best[1]
            previous_best_time == previous_best[2]
            segment_best_duration ==
                abs(unwrap_or_default(checked_sub(best_time, previous_best_duration)))
            split_time == segment_split_time(segment, tm)
            diff ==
                unwrap_or_default(checked_sub(
                    unwrap_or_default(checked_sub(split_time, previous_split_time)),
                    segment_best_duration))
            gold_duration == best_segment_duration(segment, tm)
            split_duration == unwrap_or_default(checked_sub(split_time, previous_best_time))
            class == classify_split_label(segment_best_duration, split_duration,
                                          diff, gold_duration, FALSE)
        IN  IF split_time = 0
            THEN [label |-> set_label(lbl, <<>>), calls |-> <<>>]
            ELSE IF best_time # 0
            THEN [label |-> add_css_class(set_label(lbl, format_signed(diff)), class),
                  calls |-> <<ClassifierCall("prev_segment_best",
                                             segment_best_duration, split_duration,
                                             diff, gold_duration, FALSE,
                                             classes_of(class))>>]
            ELSE [label |-> lbl, calls |-> <<>>]
    ELSE [label |-> set_label(lbl, <<>>), calls |-> <<>>]

\* <T as AdditionalInfo>::update, by the type of self
info_update(lbl, tm) ==
    IF lbl.owner = "PrevSegmentDiffInfo"
    THEN prev_segment_diff_update(lbl, tm)
    ELSE prev_segment_best_update(lbl, tm)

\* <T as AdditionalInfo>::new(timer, config): builds the label, then res.update(..)
info_new(owner, tm) == info_update(new_value_label(owner), tm)

(***************************************************************************)
(* Inputs                                                                  *)
(***************************************************************************)
\* Magnitudes at the bucket limits, and values of the repository's tests.
Magnitudes == {0, 59500, 59999, 60000, 125340, 3599999, 3600000}

\* what the callers hand over: split times and segment times may be negative;
\* 1118 and -1360 are read one millisecond short by total_milliseconds
SignedDurations == Magnitudes \cup {-61230, -120000, -3600000, 1118, -1360}

\* the durations the renderer is tried on; the long ones have an hours value
\* of three digits
RenderMagnitudes ==
    Magnitudes \cup {7, 1001, 1118, 1360, 2030, 3145, 10000, 15944, 61230,
                     120000, 3845999, 360000000, 363845999}

RenderDurations == RenderMagnitudes \cup {-x : x \in RenderMagnitudes}

OptionOf(S) == {None} \cup {Some(x) : x \in S}

\* every TimeFormat a configuration file can describe, before any call
TimeFormats ==
    {TimeFormat(h, m, s, d, places, dyn, None) :
        h \in BOOLEAN, m \in BOOLEAN, s \in BOOLEAN, d \in BOOLEAN,
        places \in 0..MaxDecimalPlaces, dyn \in BOOLEAN}

\* livesplit_core::Time values handed to format_split_time
Times ==
    {[real_time |-> r, game_time |-> None] : r \in OptionOf(SignedDurations)}
    \cup {[real_time |-> Some(59500), game_time |-> Some(-120000)],
          [real_time |-> None, game_time |-> Some(3600000)]}

\* the patterns compute_pattern builds, and patterns written by hand
ComputedPatterns ==
    {compute_pattern(tf, ms) : tf \in TimeFormats, ms \in OptionOf({0, 60000, 3600000})}

WrittenPatterns ==
    {<<"h", "h", ":", "m", "m", ":", "s", "s">>,
     <<"h", ":", "m", ":", "s", "s">>,
     <<"m", "m", ":", "s", "s", ".", "d", "d">>,
     <<":", "s">>,
     <<":", ":", "m", ".", ".", "s">>,
     <<"s", ":", "h">>,
     <<"m", " ", "h">>,
     <<"x">>,
     <<"s", "x", "x", "d">>,
     <<"d", "d", ":", "m">>,
     <<>>}

Patterns == ComputedPatterns \cup WrittenPatterns

(***************************************************************************)
(* Inputs of the user interface: what a timer can answer                   *)
(***************************************************************************)
\* a livesplit_core::Time; the game time of a recorded time equals its real time
\* here (loading times, when there are some, belong to the running segment)
TimeOf(opt) == [real_time |-> opt, game_time |-> opt]

Segment(comparison, split_time, best_segment_time, best_segments) ==
    [comparison |-> TimeOf(comparison),
     split_time |-> TimeOf(split_time),
     best_segment_time |-> TimeOf(best_segment_time),
     best_segments |-> TimeOf(best_segments)]

\* the runs: two segments, each with or without a comparison time (cumulative),
\* a best segment time and a time in the best-segments comparison (cumulative)
RunShapes ==
    {<<[comparison |-> c1, best_segment_time |-> b1, best_segments |-> b1],
       [comparison |-> c2, best_segment_time |-> b2, best_segments |-> bs2]>> :
        c1 \in {None, Some(10000)}, b1 \in {None, Some(8000)},
        c2 \in {None, Some(25000)},
        b2 \in {None, Some(12000)}, bs2 \in {Some(20000)}}

\* the attempt so far: the current split index and the split times recorded; a
\* skipped segment has none
Attempts ==
    {[current_split_index |-> None, splits |-> <<None, None>>],
     [current_split_index |-> Some(0), splits |-> <<None, None>>]}
    \cup {[current_split_index |-> Some(1), splits |-> <<s1, None>>] :
            s1 \in {None, Some(7000), Some(9000), Some(12000)}}
    \cup {[current_split_index |-> Some(2), splits |-> <<s1, Some(s2)>>] :
            s1 \in {None, Some(9000), Some(12000)}, s2 \in {21000, 27000}}

\* the clock: the attempt's duration (pauses included), the run's offset, the
\* time paused, the timing method and the loading times
Clocks ==
    {[current_attempt_duration |-> a, offset |-> o, pause_time |-> p,
      current_timing_method |-> m[1], loading_times |-> m[2]] :
        a \in {0, 3000, 14000, 30000}, o \in {0, -5000},
        p \in {None, Some(2000)},
        m \in {<<"RealTime", 0>>, <<"GameTime", 0>>, <<"GameTime", 3000>>}}

\* the real time of the attempt: what a split records when it is made now
real_time_now(clock) ==
    clock.current_attempt_duration + clock.offset - unwrap_or_default(clock.pause_time)

\* an attempt and a clock agree when the timer can hold both: nothing runs
\* before the start, a pause is part of the attempt, every recorded split time
\* is non-negative, earlier than now and later than the one before
Agree(attempt, clock) ==
    /\ is_none(attempt.current_split_index) <=> clock.current_attempt_duration = 0
    /\ clock.current_attempt_duration = 0 =>
            is_none(clock.pause_time) /\ clock.loading_times = 0
    /\ unwrap_or_default(clock.pause_time) < clock.current_attempt_duration
            \/ is_none(clock.pause_time)
    /\ clock.loading_times <= clock.current_attempt_duration
    /\ \A i \in 1..Len(attempt.splits) :
          is_some(attempt.splits[i]) =>
              /\ unwrap(attempt.splits[i]) >= 0
              /\ unwrap(attempt.splits[i]) < real_time_now(clock)
    /\ \A i \in 1..Len(attempt.splits), j \in 1..Len(attempt.splits) :
          (i < j /\ is_some(attempt.splits[i]) /\ is_some(attempt.splits[j])) =>
              unwrap(attempt.splits[i]) < unwrap(attempt.splits[j])

TimerOf(run, attempt, clock) ==
    [segments |-> [i \in 1..Len(run) |->
                      Segment(run[i].comparison, attempt.splits[i],
                              run[i].best_segment_time, run[i].best_segments)],
     current_split_index |-> attempt.current_split_index,
     current_attempt_duration |-> clock.current_attempt_duration,
     offset |-> clock.offset,
     pause_time |-> clock.pause_time,
     current_timing_method |-> clock.current_timing_method,
     loading_times |-> clock.loading_times]

TimerStates ==
    {TimerOf(run, pair[1], pair[2]) :
        run \in RunShapes,
        pair \in {p \in Attempts \X Clocks : Agree(p[1], p[2])}}

\* config.is_game_time() and config.general.split_format
Configs ==
    {[is_game_time |-> g, split_format |-> f] :
        g \in BOOLEAN, f \in {None, Some("Time")}}

\* no timer read, no row, no label: the state of the formatter specifications
NoTimer == [segments |-> <<>>, current_split_index |-> None,
            current_attempt_duration |-> 0, offset |-> 0, pause_time |-> None,
            current_timing_method |-> "RealTime", loading_times |-> 0]

\* no refresh loop started
NoRefresh == [rendered_comparison |-> "", rendered_phase |-> "NotRunning",
              rendered_splits |-> "", render_all_segments |-> FALSE,
              branch |-> "none", pc |-> "new"]

RefreshIdle ==
    /\ refresh = NoRefresh
    /\ splits = None

UiIdle ==
    /\ timer = NoTimer
    /\ calls = <<>>
    /\ rows = <<>>
    /\ panicked = FALSE
    /\ label = new_value_label("none")
    /\ RefreshIdle

(***************************************************************************)
(* The TimeFormat and its callers                                          *)
(***************************************************************************)
Init ==
    /\ format \in TimeFormats
    /\ op = "init"
    /\ total_millis = None
    /\ computed = FALSE
    /\ ret_pattern = <<>>
    /\ span = None
    /\ out = <<>>
    /\ UiIdle

\* config.format.*.get_pattern(total_millis)
GetPattern(ms_opt) ==
    \E got \in {get_pattern(format, ms_opt)} :
        /\ format' = got.self
        /\ op' = "get_pattern"
        /\ total_millis' = ms_opt
        /\ computed' = got.computed
        /\ ret_pattern' = got.ret
        /\ span' = None
        /\ out' = <<>>
        /\ UNCHANGED ui_vars

\* format_split_time(&time, timer, config)
FormatSplitTime(time, use_game_time) ==
    \E got \in {format_split_time(time, use_game_time, format)} :
        /\ format' = got.self
        /\ op' = "format_split_time"
        /\ total_millis' = got.total_ms
        /\ computed' = got.computed
        /\ ret_pattern' = got.pattern
        /\ span' = got.span
        /\ out' = got.ret
        /\ UNCHANGED ui_vars

\* format_segment_time(&duration, config)
FormatSegmentTime(duration) ==
    \E got \in {format_segment_time(duration, format)} :
        /\ format' = got.self
        /\ op' = "format_segment_time"
        /\ total_millis' = got.total_ms
        /\ computed' = got.computed
        /\ ret_pattern' = got.pattern
        /\ span' = got.span
        /\ out' = got.ret
        /\ UNCHANGED ui_vars

Next ==
    \/ \E ms_opt \in OptionOf(SignedDurations) : GetPattern(ms_opt)
    \/ \E time \in Times, use_game_time \in BOOLEAN : FormatSplitTime(time, use_game_time)
    \/ \E duration \in SignedDurations : FormatSegmentTime(duration)

Spec == Init /\ [][Next]_vars

(***************************************************************************)
(* The renderer alone: format_time_span on every duration and pattern      *)
(***************************************************************************)
\* the inputs of one call: a span and a pattern
InitRender ==
    /\ format = TimeFormatDefault
    /\ op = "init"
    /\ total_millis = None
    /\ computed = FALSE
    /\ ret_pattern \in Patterns
    /\ span \in OptionOf(RenderDurations)
    /\ out = <<>>
    /\ UiIdle

\* format_time_span(&span, pattern)
FormatTimeSpan ==
    /\ op = "init"
    /\ is_some(span)
    /\ op' = "format_time_span"
    /\ out' = format_time_span(unwrap(span), ret_pattern)
    /\ UNCHANGED <<format, total_millis, computed, ret_pattern, span>>
    /\ UNCHANGED ui_vars

\* format_time_span_opt(span, pattern)
FormatTimeSpanOpt ==
    /\ op = "init"
    /\ op' = "format_time_span_opt"
    /\ out' = format_time_span_opt(span, ret_pattern)
    /\ UNCHANGED <<format, total_millis, computed, ret_pattern, span>>
    /\ UNCHANGED ui_vars

\* format_duration(&duration, pattern)
FormatDuration ==
    /\ op = "init"
    /\ is_some(span)
    /\ op' = "format_duration"
    /\ out' = format_duration(unwrap(span), ret_pattern)
    /\ UNCHANGED <<format, total_millis, computed, ret_pattern, span>>
    /\ UNCHANGED ui_vars

NextRender ==
    \/ FormatTimeSpan
    \/ FormatTimeSpanOpt
    \/ FormatDuration

SpecRender == InitRender /\ [][NextRender]_vars

(***************************************************************************)
(* The split classifier alone                                              *)
(***************************************************************************)
\* the durations the classifier is tried on, and the differences
ClassifierDurations == {0, 7000, 8000, 9000, 10000, 11000, 12000}

ClassifierDiffs == {-3000, -1000, 0, 500}

\* calculate_split_label_classes(&timer, comparison_duration, split_duration,
\*                               diff, goldsplit_duration, running)
Classify(comparison_duration, split_duration, diff, goldsplit_duration, running) ==
    /\ op = "init"
    /\ op' = "calculate_split_label_classes"
    /\ calls' = <<ClassifierCall("classifier", comparison_duration, split_duration,
                                 diff, goldsplit_duration, running,
                                 calculate_split_label_classes(comparison_duration,
                                     split_duration, diff, goldsplit_duration, running))>>
    /\ UNCHANGED <<format, total_millis, computed, ret_pattern, span, out,
                   timer, rows, panicked, label, refresh, splits>>

NextClassify ==
    \E comparison_duration \in ClassifierDurations,
       split_duration \in ClassifierDurations,
       diff \in ClassifierDiffs,
       goldsplit_duration \in ClassifierDurations,
       running \in BOOLEAN :
        Classify(comparison_duration, split_duration, diff, goldsplit_duration, running)

\* no call made yet
InitClassify == Init /\ format = TimeFormatDefault

SpecClassify == InitClassify /\ [][NextClassify]_vars

(***************************************************************************)
(* One refresh of the user interface on one answer of the timer            *)
(***************************************************************************)
InitUi ==
    /\ format = TimeFormatDefault
    /\ op = "init"
    /\ total_millis = None
    /\ computed = FALSE
    /\ ret_pattern = <<>>
    /\ span = None
    /\ out = <<>>
    /\ timer \in TimerStates
    /\ calls = <<>>
    /\ rows = <<>>
    /\ panicked = FALSE
    /\ label = new_value_label("none")
    /\ RefreshIdle

\* format_timer(&timer, &mut config), utils/time.rs
FormatTimer ==
    /\ op = "init"
    /\ \E got \in {format_timer(timer, format)} :
        /\ format' = got.self
        /\ op' = "format_timer"
        /\ total_millis' = got.total_ms
        /\ computed' = got.computed
        /\ ret_pattern' = got.pattern
        /\ span' = got.span
        /\ out' = got.ret
    /\ UNCHANGED ui_vars

\* format_timer(&timer, &config), utils/utils.rs
UtilsFormatTimer ==
    /\ op = "init"
    /\ \E got \in {utils_format_timer(timer)} :
        /\ op' = "utils_format_timer"
        /\ ret_pattern' = DEFAULT_TIME_FORMAT
        /\ span' = got.span
        /\ out' = got.ret
    /\ UNCHANGED <<format, total_millis, computed>>
    /\ UNCHANGED ui_vars

\* TimerUI::build_splits_list(&timer, &config)
BuildSplitsList(config) ==
    /\ op = "init"
    /\ \E got \in {build_splits_list(timer, config)} :
        /\ op' = "build_splits_list"
        /\ rows' = got.rows
        /\ calls' = got.calls
        /\ panicked' = got.panicked
    /\ UNCHANGED <<format, total_millis, computed, ret_pattern, span, out, timer, label,
                   refresh, splits>>

\* PrevSegmentDiffInfo::new(&timer, &mut config), PrevSegmentBestInfo::new(..)
InfoNew(owner) ==
    /\ op = "init"
    /\ \E got \in {info_new(owner, timer)} :
        /\ op' = "info_new"
        /\ label' = got.label
        /\ calls' = got.calls
    /\ UNCHANGED <<format, total_millis, computed, ret_pattern, span, out,
                   timer, rows, panicked, refresh, splits>>

NextUi ==
    \/ FormatTimer
    \/ UtilsFormatTimer
    \/ \E config \in Configs : BuildSplitsList(config)
    \/ \E owner \in {"PrevSegmentDiffInfo", "PrevSegmentBestInfo"} : InfoNew(owner)

SpecUi == InitUi /\ [][NextUi]_vars

(***************************************************************************)
(* An AdditionalInfo over the refreshes of an attempt                      *)
(***************************************************************************)
\* the answers of the timer the info labels are refreshed on: one run with
\* its best segment times, with or without a comparison time of the first
\* segment, in real time, without offset or pause, before the start and late
\* in the attempt
InfoTimers ==
    {tm \in TimerStates :
        /\ tm.current_timing_method = "RealTime"
        /\ tm.offset = 0
        /\ is_none(tm.pause_time)
        /\ tm.current_attempt_duration \in {0, 30000}
        /\ is_some(segment_at(tm, 0).best_segment_time.real_time)
        /\ is_some(segment_at(tm, 1).best_segment_time.real_time)
        /\ is_some(segment_at(tm, 1).comparison.real_time)}

\* the state after PrevSegmentDiffInfo::new / PrevSegmentBestInfo::new
InitInfo ==
    /\ format = TimeFormatDefault
    /\ op = "info_new"
    /\ total_millis = None
    /\ computed = FALSE
    /\ ret_pattern = <<>>
    /\ span = None
    /\ out = <<>>
    /\ timer \in InfoTimers
    /\ rows = <<>>
    /\ panicked = FALSE
    /\ RefreshIdle
    /\ \E owner \in {"PrevSegmentDiffInfo", "PrevSegmentBestInfo"} :
        /\ label = info_new(owner, timer).label
        /\ calls = info_new(owner, timer).calls

\* info.update(&timer, &mut config), on a tick of the refresh loop
InfoUpdate(tm) ==
    \E got \in {info_update(label, tm)} :
        /\ op' = "info_update"
        /\ timer' = tm
        /\ label' = got.label
        /\ calls' = got.calls
        /\ UNCHANGED <<format, total_millis, computed, ret_pattern, span, out,
                       rows, panicked, refresh, splits>>

NextInfo == \E tm \in InfoTimers : InfoUpdate(tm)

SpecInfo == InitInfo /\ [][NextInfo]_vars

(***************************************************************************)
(* Properties of the pattern resolver                                      *)
(***************************************************************************)
\* the operations that called get_pattern
CalledGetPattern == op \in {"get_pattern", "format_split_time", "format_segment_time"}

\* the operations that rendered a span
Rendered == op \in {"format_split_time", "format_segment_time"} /\ is_some(span)

\* The shape [h][:m][:s], written out case by case.
FieldsShape(h, m, s) ==
    CASE h /\ m /\ s -> <<"h", ":", "m", ":", "s">>
      [] h /\ m /\ ~s -> <<"h", ":", "m">>
      [] h /\ ~m /\ s -> <<"h", ":", "s">>
      [] h /\ ~m /\ ~s -> <<"h">>
      [] ~h /\ m /\ s -> <<"m", ":", "s">>
      [] ~h /\ m /\ ~s -> <<"m">>
      [] ~h /\ ~m /\ s -> <<"s">>
      [] OTHER -> <<>>

\* The shape [.d^N]; N = 0 is no decimal part.
DecimalsShape(n) == IF n = 0 THEN <<>> ELSE <<".">> \o [i \in 1..n |-> "d"]

\* The shape [h][:m][:s][.d^N], "s" when that would be empty.
ShapeOf(h, m, s, n) ==
    IF FieldsShape(h, m, s) \o DecimalsShape(n) = <<>>
    THEN <<"s">>
    ELSE FieldsShape(h, m, s) \o DecimalsShape(n)

Chars(str) == {str[i] : i \in 1..Len(str)}

CountOf(ch, str) == Cardinality({i \in 1..Len(str) : str[i] = ch})

\* the pattern of the flags as configured
StaticShape(tf) ==
    ShapeOf(tf.show_hours, tf.show_minutes, tf.show_seconds,
            IF tf.show_decimals THEN tf.decimal_places ELSE 0)

\* C1: with dynamic = false every call of get_pattern, whatever total_millis it
\* is given, returns the pattern of the static flags and leaves it in
\* cached_pattern; once cached_pattern holds a value the call returns that value
\* without running compute_pattern and without changing the TimeFormat.
C1_StaticIdempotent ==
    [][(~format.dynamic /\ op' \in {"get_pattern", "format_split_time", "format_segment_time"})
        => /\ ret_pattern' = StaticShape(format)
           /\ format'.cached_pattern = Some(ret_pattern')
           /\ is_some(format.cached_pattern)
                => /\ ~computed'
                   /\ ret_pattern' = unwrap(format.cached_pattern)
                   /\ format' = format]_vars

\* a cache hit of a static format, for a magnitude that a dynamic format would
\* show differently
C1_Witness ==
    /\ ~format.dynamic
    /\ op = "get_pattern"
    /\ ~computed
    /\ total_millis = Some(59500)
    /\ ret_pattern = <<"h", ":", "m", ":", "s", ".", "d", "d">>

\* C2: with dynamic = true and total_millis = Some(ms), ms >= 0, the pattern is
\* the one of: hours iff show_hours and ms >= 3_600_000; minutes iff
\* show_minutes and ms >= 60_000; seconds iff show_seconds; decimals iff
\* show_decimals and (ms < 60_000 or not (show_minutes and show_seconds)).
C2_DynamicBuckets ==
    (CalledGetPattern /\ format.dynamic /\ is_some(total_millis)
        /\ unwrap(total_millis) >= 0)
    => LET ms == unwrap(total_millis)
           h == format.show_hours /\ ms >= 3600000
           m == format.show_minutes /\ ms >= 60000
           s == format.show_seconds
           d == format.show_decimals
                /\ (ms < 60000 \/ ~(format.show_minutes /\ format.show_seconds))
       IN  ret_pattern = ShapeOf(h, m, s, IF d THEN format.decimal_places ELSE 0)

\* the limit 3_599_999 is still under an hour: hours hidden, decimals suppressed
C2_Witness ==
    /\ format.dynamic
    /\ format.show_hours /\ format.show_minutes /\ format.show_seconds
    /\ format.show_decimals /\ format.decimal_places = 2
    /\ op = "get_pattern"
    /\ total_millis = Some(3599999)
    /\ ret_pattern = <<"m", ":", "s">>

\* C3: in dynamic mode get_pattern(Some(ms)) and get_pattern(Some(-ms)) return
\* the same pattern, also for the signed value format_split_time passes.
C3_BucketByMagnitude ==
    (CalledGetPattern /\ format.dynamic /\ is_some(total_millis))
    => ret_pattern = compute_pattern(format, Some(-unwrap(total_millis)))

\* C4: every pattern has the shape [h][:m][:s][.d^N]: every visible field is in
\* it, in the order hours, minutes, seconds; a ':' stands only between two
\* fields, never first; the decimal part, '.' and decimal_places times 'd', is
\* there iff decimals are visible and decimal_places > 0.
C4_PatternShape ==
    CalledGetPattern
    => LET vis == resolve_visibility(format, total_millis)
           decimals == vis.show_decimals /\ format.decimal_places > 0
       IN  /\ \E h \in BOOLEAN, m \in BOOLEAN, s \in BOOLEAN,
                 n \in 0..format.decimal_places :
                 /\ ret_pattern = ShapeOf(h, m, s, n)
                 /\ vis.show_hours => h
                 /\ vis.show_minutes => m
                 /\ vis.show_seconds => s
           /\ ret_pattern[1] # ":"
           /\ ret_pattern[Len(ret_pattern)] # ":"
           /\ \A i \in 1..(Len(ret_pattern) - 1) :
                 ret_pattern[i] = ":" =>
                     /\ ret_pattern[i - 1] \in {"h", "m"}
                     /\ ret_pattern[i + 1] \in {"m", "s"}
           /\ "." \in Chars(ret_pattern) <=> decimals
           /\ CountOf("d", ret_pattern) = IF decimals THEN format.decimal_places ELSE 0
           /\ CountOf(".", ret_pattern) <= 1

\* minutes hidden by the bucket: the pattern starts with the seconds, no ':'
C4_Witness ==
    /\ format.dynamic
    /\ format.show_minutes /\ format.show_seconds /\ ~format.show_hours
    /\ format.show_decimals /\ format.decimal_places = 3
    /\ op = "format_segment_time"
    /\ total_millis = Some(59999)
    /\ ret_pattern = <<"s", ".", "d", "d", "d">>

\* C5: the pattern is never empty, and with show_hours, show_minutes,
\* show_seconds and show_decimals all false it is exactly "s".
C5_NeverEmpty ==
    CalledGetPattern
    => /\ ret_pattern # <<>>
       /\ (~format.show_hours /\ ~format.show_minutes /\ ~format.show_seconds
           /\ ~format.show_decimals) => ret_pattern = <<"s">>

\* all four flags false, decimal_places set all the same
C5_Witness ==
    /\ ~format.show_hours /\ ~format.show_minutes /\ ~format.show_seconds
    /\ ~format.show_decimals /\ format.decimal_places = 2
    /\ op = "get_pattern"
    /\ computed
    /\ ret_pattern = <<"s">>

\* the flags and the bucket leave no field and no decimal part
NothingVisible ==
    LET vis == resolve_visibility(format, total_millis)
    IN  /\ ~vis.show_hours /\ ~vis.show_minutes /\ ~vis.show_seconds
        /\ ~(vis.show_decimals /\ format.decimal_places > 0)

\* two decimal digits of v < 100
TwoDigits(v) == <<DigitChars[(v \div 10) + 1], DigitChars[(v % 10) + 1]>>

\* the text holds the seconds value: two digits somewhere, or one digit first
SecondsShown(str, seconds) ==
    \/ \E i \in 1..(Len(str) - 1) : SubSeq(str, i, i + 1) = TwoDigits(seconds)
    \/ seconds < 10 /\ str # <<>> /\ str[1] = DigitChars[seconds + 1]

\* C6 as claimed: for every flag combination the resolved pattern contains 's'
\* and the rendered string is not empty.
C6_AlwaysSeconds ==
    CalledGetPattern
    => /\ "s" \in Chars(ret_pattern)
       /\ Rendered => out # <<>>

\* C6 as amended: the resolved pattern contains 's' exactly when show_seconds
\* is true or nothing at all is visible (the fallback); the rendered string is
\* then not empty and holds the seconds value.
C6_SecondsWhenSelected ==
    CalledGetPattern
    => /\ "s" \in Chars(ret_pattern) <=> (format.show_seconds \/ NothingVisible)
       /\ (Rendered /\ (format.show_seconds \/ NothingVisible))
            => /\ out # <<>>
               /\ SecondsShown(out, (abs(unwrap(span)) \div 1000) % 60)

\* the fallback at work on a rendering: only hours selected, under a minute
C6_Witness ==
    /\ format.dynamic
    /\ format.show_hours /\ ~format.show_minutes /\ ~format.show_seconds
    /\ ~format.show_decimals
    /\ op = "format_segment_time"
    /\ span = Some(59500)
    /\ ret_pattern = <<"s">>
    /\ out = <<"5", "9">>

(***************************************************************************)
(* Properties of the renderer                                              *)
(***************************************************************************)
\* a call of the renderer on a span
RenderedSpan ==
    /\ op \in {"format_time_span", "format_time_span_opt", "format_duration"}
    /\ is_some(span)

\* the n low decimal digits of v, most significant first
DigitsOf(v, n) == [i \in 1..n |-> DigitChars[((v \div 10^(n - i)) % 10) + 1]]

\* the number of decimal digits of v >= 0
NumDigits(v) == CHOOSE n \in 1..18 : v < 10^n /\ (n = 1 \/ v >= 10^(n - 1))

\* v >= 0 in its natural width, and zero-padded to width 2
Natural(v) == DigitsOf(v, NumDigits(v))
Pad2(v) == IF v < 10 THEN <<"0">> \o Natural(v) ELSE Natural(v)

\* the millisecond remainder of `ms` cut to n digits (n <= 3), or its three
\* digits followed by n - 3 zeros
ExpectedFraction(ms, n) ==
    IF n <= 3
    THEN DigitsOf((ms % 1000) \div 10^(3 - n), n)
    ELSE DigitsOf((ms % 1000) * 10^(n - 3), n)

IsPrefix(a, b) == Len(a) <= Len(b) /\ SubSeq(b, 1, Len(a)) = a

\* the value of the field named by an h, m or s token
FieldValue(ch, f) ==
    CASE ch = "h" -> f.hours
      [] ch = "m" -> f.minutes
      [] OTHER -> f.seconds

\* C7: a run of N 'd' appends the millisecond remainder zero-padded to 3 digits
\* and cut to its first N digits (N <= 3), or its 3 digits and N - 3 zeros
\* (N > 3); nothing is rounded.
C7_FractionTruncates ==
    RenderedSpan
    => LET tokens == tokenize(ret_pattern)
           f == decompose(unwrap(span))
           ms == abs_ms(unwrap(span))
       IN  /\ \A k \in 1..Len(tokens) :
                 tokens[k].ch = "d"
                 => render_tokens(tokens, k, f)
                      = render_tokens(tokens, k - 1, f)
                          \o ExpectedFraction(ms, tokens[k].count)
           /\ (tokens # <<>> /\ tokens[Len(tokens)].ch = "d")
                 => /\ Len(out) >= tokens[Len(tokens)].count
                    /\ SubSeq(out, Len(out) - tokens[Len(tokens)].count + 1, Len(out))
                         = ExpectedFraction(ms, tokens[Len(tokens)].count)
           /\ (ms = 3145 /\ ret_pattern = <<"s", ".", "d">>)
                 => out = <<"3", ".", "1">>
           /\ (ms = 3145 /\ ret_pattern = <<"s", ".", "d", "d">>)
                 => out = <<"3", ".", "1", "4">>
           /\ (ms = 3145 /\ ret_pattern = <<"s", ".", "d", "d", "d">>)
                 => out = <<"3", ".", "1", "4", "5">>
           /\ (ms = 3845999 /\ ret_pattern = <<"h", ":", "m", ":", "s", ".", "d", "d">>)
                 => out = <<"1", ":", "0", "4", ":", "0", "5", ".", "9", "9">>

\* 999 ms cut to two digits: rounding would have carried into the seconds
C7_Witness ==
    /\ op = "format_duration"
    /\ span = Some(3845999)
    /\ ret_pattern = <<"h", ":", "m", ":", "s", ".", "d", "d">>
    /\ out = <<"1", ":", "0", "4", ":", "0", "5", ".", "9", "9">>

\* C8: an 'h' or 'm' field is emitted iff its value is nonzero or the output so
\* far is non-empty; an 's' field is emitted for every value.
C8_LeadingFieldsSuppressed ==
    RenderedSpan
    => LET tokens == tokenize(ret_pattern)
           f == decompose(unwrap(span))
       IN  /\ \A k \in 1..Len(tokens) :
                 LET earlier == render_tokens(tokens, k - 1, f)
                     later == render_tokens(tokens, k, f)
                 IN  /\ tokens[k].ch \in {"h", "m"}
                        => /\ IsPrefix(earlier, later)
                           /\ later # earlier
                                <=> (FieldValue(tokens[k].ch, f) # 0 \/ earlier # <<>>)
                     /\ tokens[k].ch = "s"
                        => /\ IsPrefix(earlier, later)
                           /\ Len(later) > Len(earlier)
           /\ (unwrap(span) = 125340 /\ ret_pattern = <<"h", ":", "m", ":", "s">>)
                 => out = <<"2", ":", "0", "5">>
           /\ (unwrap(span) = 10000 /\ ret_pattern = <<"m", ":", "s">>)
                 => out = <<"1", "0">>

\* zero hours and their separator are left out
C8_Witness ==
    /\ op = "format_time_span"
    /\ span = Some(125340)
    /\ ret_pattern = <<"h", ":", "m", ":", "s">>
    /\ out = <<"2", ":", "0", "5">>

\* the pattern with every run of h, m or s cut to one character
RECURSIVE Collapse(_)
Collapse(pattern) ==
    IF Len(pattern) <= 1 THEN pattern
    ELSE LET n == Len(pattern)
             front == Collapse(SubSeq(pattern, 1, n - 1))
         IN  IF pattern[n] = pattern[n - 1] /\ pattern[n] \in {"h", "m", "s"}
             THEN front
             ELSE Append(front, pattern[n])

\* C9 as stated: an emitted h, m or s field has its natural width when it is
\* the first thing in the output and is exactly two characters wide when
\* anything precedes it; the run length of h, m or s does not change the output.
C9_ExactlyWidthTwo ==
    RenderedSpan
    => LET tokens == tokenize(ret_pattern)
           f == decompose(unwrap(span))
       IN  /\ \A k \in 1..Len(tokens) :
                 LET earlier == render_tokens(tokens, k - 1, f)
                     later == render_tokens(tokens, k, f)
                     value == FieldValue(tokens[k].ch, f)
                 IN  (tokens[k].ch \in {"h", "m", "s"} /\ later # earlier)
                     => /\ IsPrefix(earlier, later)
                        /\ IF earlier = <<>>
                           THEN later = Natural(value)
                           ELSE Len(later) = Len(earlier) + 2
           /\ out = format_time_span(unwrap(span), Collapse(ret_pattern))

\* C9, amended: an emitted h, m or s field has its natural width when it is the
\* first thing in the output; when anything precedes it, it is zero-padded to
\* a width of at least 2: two digits for a value below 100 (every minutes and
\* seconds value), and the natural three or more digits for an hours value of
\* 100 or more.  The run length of h, m or s does not change the output.
C9_FieldWidth ==
    RenderedSpan
    => LET tokens == tokenize(ret_pattern)
           f == decompose(unwrap(span))
       IN  /\ \A k \in 1..Len(tokens) :
                 LET earlier == render_tokens(tokens, k - 1, f)
                     later == render_tokens(tokens, k, f)
                     value == FieldValue(tokens[k].ch, f)
                 IN  (tokens[k].ch \in {"h", "m", "s"} /\ later # earlier)
                     => later = earlier \o (IF earlier = <<>> THEN Natural(value)
                                                               ELSE Pad2(value))
           /\ out = format_time_span(unwrap(span), Collapse(ret_pattern))

\* 100 hours after the seconds keep their three digits: "s:h" renders "0:100"
C9_Witness ==
    /\ op = "format_time_span"
    /\ span = Some(360000000)
    /\ ret_pattern = <<"s", ":", "h">>
    /\ out = <<"0", ":", "1", "0", "0">>

\* C10: the rendering of a duration and of its negation are the same string,
\* and it holds no sign character.
C10_AbsoluteValue ==
    RenderedSpan
    => /\ out = format_time_span(-unwrap(span), ret_pattern)
       /\ "-" \notin Chars(out)
       /\ (unwrap(span) = -61230 /\ ret_pattern = <<"m", ":", "s", ".", "d", "d">>)
             => out = <<"1", ":", "0", "1", ".", "2", "3">>

\* a negative duration rendered without its sign
C10_Witness ==
    /\ op = "format_time_span"
    /\ span = Some(-61230)
    /\ ret_pattern = <<"m", ":", "s", ".", "d", "d">>
    /\ out = <<"1", ":", "0", "1", ".", "2", "3">>

(***************************************************************************)
(* Properties of the callers: sign, panics, subtraction                    *)
(***************************************************************************)
\* C11: every caller-level formatter that receives a negative duration
\* (here format_split_time and format_segment_time) returns "-" followed by
\* the rendering of the absolute value, and the plain rendering for a
\* duration that is not negative.
C11_NegativePrefixed ==
    Rendered =>
        out = IF unwrap(span) < 0
              THEN <<"-">> \o format_time_span(abs(unwrap(span)), ret_pattern)
              ELSE format_time_span(unwrap(span), ret_pattern)

\* C12: no operation panics: in particular the assert! of build_splits_list,
\* "the current attempt duration is greater than the split time of the
\* previous segment", holds whenever the current segment index is above 0.
C12_NeverPanics == panicked = FALSE

\* a subtraction that stops at zero, and the exact signed one
Saturating(a, b) == IF b > a THEN 0 ELSE a - b

Signed(a, b) == a - b

\* the split time of segment `index` of the timer, and its comparison time
SplitTimeAt(index) ==
    IF index < 0 THEN 0 ELSE unwrap_or_default(timer.segments[index + 1].split_time.real_time)

ComparisonAt(index) ==
    IF index < 0 THEN 0 ELSE unwrap_or_default(timer.segments[index + 1].comparison.real_time)

\* the loading times format_timer and build_splits_list subtract
LoadingTimes == IF timer.current_timing_method = "GameTime" THEN timer.loading_times ELSE 0

\* the segment PrevSegmentDiffInfo / PrevSegmentBestInfo looks at
PreviousIndex == unwrap(timer.current_split_index) - 1

\* The display subtractions of the last operation, read with `sub` as the
\* subtraction: the duration format_timer renders, and the split_duration and
\* comparison_duration handed to the classifier by the finished rows of
\* build_splits_list and by PrevSegmentDiffInfo.
SubtractionsAre(sub(_, _)) ==
    /\ op = "format_timer" =>
          unwrap(span) =
              sub(sub(timer.current_attempt_duration + timer.offset,
                      unwrap_or_default(timer.pause_time)),
                  LoadingTimes)
    /\ op = "build_splits_list" =>
          \A k \in 1..Len(calls) :
              calls[k].site = "finished" =>
                  /\ calls[k].split_duration = sub(SplitTimeAt(k - 1), SplitTimeAt(k - 2))
                  /\ calls[k].comparison_duration =
                        abs(sub(ComparisonAt(k - 1), ComparisonAt(k - 2)))
    /\ (op = "info_new" /\ label.owner = "PrevSegmentDiffInfo") =>
          \A k \in 1..Len(calls) :
              /\ calls[k].split_duration =
                    sub(segment_split_time(segment_at(timer, PreviousIndex), timer),
                        previous_comparison_values(timer, PreviousIndex)[2])
              /\ calls[k].comparison_duration =
                    abs(sub(segment_comparison_time(segment_at(timer, PreviousIndex), timer),
                            previous_comparison_values(timer, PreviousIndex)[1]))

\* C13 as stated: a display subtraction whose subtrahend is larger than its
\* minuend gives zero, never a negative duration (format_timer,
\* build_splits_list, PrevSegmentDiffInfo::update).
C13_SubtractionSaturates == SubtractionsAre(Saturating)

\* C13, amended: checked_sub(..).unwrap_or_default() is the exact signed
\* difference, negative when the subtrahend is larger; format_timer renders
\* such a duration behind "-", and the comparison duration is the absolute
\* value of the signed difference.
C13_SubtractionSigned ==
    /\ SubtractionsAre(Signed)
    /\ op = "format_timer" => (unwrap(span) < 0 <=> (out # <<>> /\ out[1] = "-"))

\* format_timer ran on a timer whose pause time exceeds the attempt duration
\* plus offset, and returned the negative duration behind "-"
C13_Witness ==
    /\ op = "format_timer"
    /\ unwrap_or_default(timer.pause_time) > timer.current_attempt_duration + timer.offset
    /\ unwrap(span) < 0
    /\ out[1] = "-"

(***************************************************************************)
(* Properties of the split classifier                                      *)
(***************************************************************************)
\* the classifier was called; Call is that call and Classes its result
Classified == op = "calculate_split_label_classes"

Call == calls[1]

Classes == calls[1].classes

\* the gold rule: not running, and no best recorded or the split under it
GoldRule ==
    /\ ~Call.running
    /\ (Call.goldsplit_duration = 0 \/ Call.split_duration < Call.goldsplit_duration)

\* the classes of the six tags; none is the empty list
TagGold == <<"goldsplit">>

TagAheadGaining == <<"greensplit">>

TagAheadLosing == <<"lostgreensplit">>

TagBehindGaining == <<"gainedredsplit">>

TagBehindLosing == <<"redsplit">>

TagNone == <<>>

\* C14: with running = false and gold_duration = 0 the classifier returns
\* gold and nothing else, for every comparison, split and diff.
C14_NoBestIsGold ==
    (Classified /\ ~Call.running /\ Call.goldsplit_duration = 0) => Classes = TagGold

\* a finished split behind its comparison, with no best recorded, came out gold
C14_Witness ==
    /\ Classified
    /\ ~Call.running
    /\ Call.goldsplit_duration = 0
    /\ Call.diff > 0
    /\ Call.split_duration > Call.comparison_duration
    /\ Classes = TagGold

\* C15: with running = false, gold_duration # 0 and split < gold the result
\* is the single tag gold; and every result is exactly one tag of gold,
\* ahead-gaining, ahead-losing, behind-gaining, behind-losing, none.
C15_ExactlyOneTag ==
    Classified =>
        /\ Classes \in {TagGold, TagAheadGaining, TagAheadLosing,
                         TagBehindGaining, TagBehindLosing, TagNone}
        /\ (~Call.running /\ Call.goldsplit_duration # 0
                /\ Call.split_duration < Call.goldsplit_duration) => Classes = TagGold

\* C16: gold is produced only if running = false and (gold_duration = 0 or
\* split < gold); comparison 10_000, split 9_000, diff -1_000, gold 8_000
\* gives ahead-gaining, not gold.
C16_GoldOnlyByRule ==
    Classified =>
        /\ (\E i \in 1..Len(Classes) : Classes[i] = "goldsplit") => GoldRule
        /\ (/\ Call.comparison_duration = 10000 /\ Call.split_duration = 9000
            /\ Call.diff = -1000 /\ Call.goldsplit_duration = 8000)
                => Classes = TagAheadGaining

\* the example of C16 as a finished split
C16_Witness ==
    /\ Classified
    /\ ~Call.running
    /\ Call.comparison_duration = 10000
    /\ Call.split_duration = 9000
    /\ Call.diff = -1000
    /\ Call.goldsplit_duration = 8000
    /\ Classes = TagAheadGaining

\* C17: when the gold rule does not apply the tag depends on the sign of
\* diff and on split <= comparison only: ahead-gaining / ahead-losing for
\* diff < 0, behind-gaining / behind-losing for diff > 0, none for diff = 0.
C17_SignAndPace ==
    (Classified /\ ~GoldRule) =>
        Classes =
            IF Call.diff < 0
            THEN IF Call.split_duration <= Call.comparison_duration
                 THEN TagAheadGaining ELSE TagAheadLosing
            ELSE IF Call.diff > 0
            THEN IF Call.split_duration <= Call.comparison_duration
                 THEN TagBehindGaining ELSE TagBehindLosing
            ELSE TagNone

\* a split equal to its comparison while behind: behind-gaining
C17_Witness ==
    /\ Classified
    /\ ~GoldRule
    /\ Call.diff > 0
    /\ Call.split_duration = Call.comparison_duration
    /\ Classes = TagBehindGaining

\* the example of C18: comparison 10_000, split 11_000, diff +500
BehindExample ==
    /\ Classified
    /\ Call.comparison_duration = 10000
    /\ Call.split_duration = 11000
    /\ Call.diff = 500

\* C18 as stated: the example returns behind-losing for every gold_duration,
\* 0 included, and both values of running.
C18_BehindLosingAlways == BehindExample => Classes = TagBehindLosing

\* C18, amended: the example returns behind-losing whenever the gold rule does
\* not apply (running, or a gold_duration other than 0 and at most 11_000),
\* and gold when running = false and gold_duration = 0.
C18_BehindLosingUnlessGold ==
    /\ (BehindExample /\ ~GoldRule) => Classes = TagBehindLosing
    /\ (BehindExample /\ ~Call.running /\ Call.goldsplit_duration = 0) => Classes = TagGold

\* the example while the segment runs and no best is recorded
C18_Witness ==
    /\ BehindExample
    /\ Call.running
    /\ Call.goldsplit_duration = 0
    /\ Classes = TagBehindLosing

(***************************************************************************)
(* Properties of the classifier's callers                                  *)
(***************************************************************************)
\* the current time of the attempt as build_splits_list computes it
CurrentTime ==
    timer.current_attempt_duration + timer.offset
        - unwrap_or_default(timer.pause_time) - LoadingTimes

\* the segment index of the k-th call of build_splits_list: the finished rows
\* come first, in order, and the running row last
IndexOfCall(k) ==
    IF calls[k].site = "running" THEN unwrap(timer.current_split_index) ELSE k - 1

\* C19 as stated: at every call of the classifier, diff equals
\* split_duration - comparison_duration of the same call.
C19_DiffIsSegmentRelative ==
    op \in {"build_splits_list", "info_new"} =>
        \A k \in 1..Len(calls) :
            calls[k].diff = calls[k].split_duration - calls[k].comparison_duration

\* C19, amended: diff = split_duration - comparison_duration at the call of
\* PrevSegmentDiffInfo::update.  In build_splits_list diff is cumulative, the
\* current time (running row) or the split time (finished row) minus the
\* comparison time of the segment, and equals split_duration -
\* comparison_duration when the previous segment's split time equals its
\* comparison time and the comparison time does not decrease.  In
\* PrevSegmentBestInfo::update diff is measured from the previous split time
\* and split_duration from the previous best time, and the equality holds
\* when the two coincide.
C19_DiffPerCallSite ==
    /\ op = "build_splits_list" =>
          \A k \in 1..Len(calls) :
              LET index == IndexOfCall(k)
                  time == IF calls[k].site = "running" THEN CurrentTime
                          ELSE SplitTimeAt(index)
              IN  /\ calls[k].diff = time - ComparisonAt(index)
                  /\ (/\ SplitTimeAt(index - 1) = ComparisonAt(index - 1)
                      /\ ComparisonAt(index) >= ComparisonAt(index - 1))
                        => calls[k].diff =
                              calls[k].split_duration - calls[k].comparison_duration
    /\ op = "info_new" =>
          \A k \in 1..Len(calls) :
              (\/ calls[k].site = "prev_segment_diff"
               \/ best_comparison_values(timer, PreviousIndex)[2] =
                      previous_comparison_values(timer, PreviousIndex)[2])
                => calls[k].diff = calls[k].split_duration - calls[k].comparison_duration

\* build_splits_list classified the second segment as finished, with a
\* cumulative diff that is not split_duration - comparison_duration
C19_Witness ==
    /\ op = "build_splits_list"
    /\ ~panicked
    /\ \E k \in 1..Len(calls) :
          /\ calls[k].site = "finished"
          /\ IndexOfCall(k) = 1
          /\ calls[k].diff = SplitTimeAt(1) - ComparisonAt(1)
          /\ calls[k].diff # calls[k].split_duration - calls[k].comparison_duration

(***************************************************************************)
(* Properties of the info labels                                           *)
(***************************************************************************)
\* the CSS classes that stand for a classification
ClassificationClasses ==
    {"goldsplit", "greensplit", "lostgreensplit", "gainedredsplit", "redsplit"}

\* those the value label carries
LabelClassification == label.css_classes \cap ClassificationClasses

\* the classification the latest update computed: none when it made no call
LatestClassification ==
    IF calls = <<>> THEN {} ELSE {calls[1].classes[i] : i \in 1..Len(calls[1].classes)}

\* C20: after any sequence of update calls on PrevSegmentDiffInfo /
\* PrevSegmentBestInfo the value label carries at most one classification
\* class, the one computed by the latest update, and none when the latest
\* update computed no class or cleared the label.
C20_OnlyLatestClassification ==
    op \in {"info_new", "info_update"} =>
        /\ Cardinality(LabelClassification) <= 1
        /\ LabelClassification = LatestClassification

(***************************************************************************)
(* Properties of the pattern cache                                         *)
(***************************************************************************)
\* the fields of a TimeFormat other than cached_pattern
PublicFields(tf) ==
    <<tf.show_hours, tf.show_minutes, tf.show_seconds, tf.show_decimals,
      tf.decimal_places, tf.dynamic>>

\* C21 as stated: a get_pattern call with dynamic = true leaves
\* cached_pattern unchanged, and a call with dynamic = false writes it only
\* when it was None.
C21_CacheWrittenOnlyWhenStatic ==
    [][CalledGetPattern' =>
          /\ format.dynamic => format'.cached_pattern = format.cached_pattern
          /\ (~format.dynamic /\ format'.cached_pattern # format.cached_pattern)
                => is_none(format.cached_pattern)]_vars

\* C21, amended: get_pattern writes cached_pattern exactly when dynamic is
\* true or cached_pattern is None, and then with the pattern it returns: a
\* dynamic call overwrites the cache on every call, a static call writes it
\* only when it was None; no other field of the TimeFormat is touched.
C21_CacheWrittenWhenRecomputed ==
    [][CalledGetPattern' =>
          /\ computed' <=> (format.dynamic \/ is_none(format.cached_pattern))
          /\ computed' => format'.cached_pattern = Some(ret_pattern')
          /\ ~computed' => format'.cached_pattern = format.cached_pattern
          /\ PublicFields(format') = PublicFields(format)]_vars

\* a dynamic TimeFormat whose cache holds the pattern of the bucket of the
\* latest call: minutes are configured, the call was under a minute
C21_Witness ==
    /\ op = "get_pattern"
    /\ format.dynamic
    /\ format.show_minutes
    /\ format.show_seconds
    /\ computed
    /\ total_millis = Some(59500)
    /\ format.cached_pattern = Some(ret_pattern)
    /\ CountOf("m", ret_pattern) = 0

(***************************************************************************)
(* A TimeFormat read from the configuration file                           *)
(***************************************************************************)
\* #[derive(Deserialize)] #[serde(rename_all = "kebab-case")] #[serde(default)]
\* on TimeFormat: every field of the struct, the private cached_pattern
\* included, is read from the document when its key is present and taken
\* from TimeFormat::default() otherwise
deserialize(doc) ==
    [field \in DOMAIN TimeFormatDefault |->
        IF field \in DOMAIN doc THEN doc[field] ELSE TimeFormatDefault[field]]

\* the values a document can give under the key cached-pattern
DocumentPatterns ==
    {<<>>, <<"x">>, <<"m", ":", "s">>}

\* the documents a configuration file can hold for one TimeFormat: all keys
\* but cached-pattern, all keys, only cached-pattern, and no key at all
ConfigDocuments ==
    {[show_hours |-> h, show_minutes |-> m, show_seconds |-> s,
      show_decimals |-> d, decimal_places |-> places, dynamic |-> dyn] :
        h \in BOOLEAN, m \in BOOLEAN, s \in BOOLEAN, d \in BOOLEAN,
        places \in {0, 2}, dyn \in BOOLEAN}
    \cup {[show_hours |-> h, show_minutes |-> TRUE, show_seconds |-> s,
           show_decimals |-> d, decimal_places |-> 2, dynamic |-> dyn,
           cached_pattern |-> Some(p)] :
            h \in BOOLEAN, s \in BOOLEAN, d \in BOOLEAN, dyn \in BOOLEAN,
            p \in DocumentPatterns}
    \cup {[cached_pattern |-> Some(p)] : p \in DocumentPatterns}
    \cup {[dynamic |-> TRUE], [decimal_places |-> 1]}

\* the state right after the configuration is parsed
InitDeserialized ==
    /\ format \in {deserialize(doc) : doc \in ConfigDocuments}
    /\ op = "init"
    /\ total_millis = None
    /\ computed = FALSE
    /\ ret_pattern = <<>>
    /\ span = None
    /\ out = <<>>
    /\ UiIdle

SpecDeserialized == InitDeserialized /\ [][Next]_vars

\* C22: in every reachable state of a TimeFormat, the state right after
\* deserialization included, cached_pattern is None or a non-empty pattern
\* that compute_pattern can produce, and get_pattern never returns the empty
\* string.
C22_CacheNoneOrComputable ==
    /\ \/ is_none(format.cached_pattern)
       \/ /\ unwrap(format.cached_pattern) # <<>>
          /\ unwrap(format.cached_pattern) \in ComputedPatterns
    /\ CalledGetPattern => ret_pattern # <<>>

\* the fields format_time_span computes for the span of the last call
Fields == decompose(unwrap(span))

\* C23: for every duration of absolute value a milliseconds, format_time_span
\* decomposes it into hours >= 0, 0 <= minutes <= 59, 0 <= seconds <= 59 and
\* 0 <= millis <= 999 with
\* hours*3_600_000 + minutes*60_000 + seconds*1_000 + millis = a.
C23_DecompositionExact ==
    RenderedSpan =>
        LET a == IF unwrap(span) < 0 THEN 0 - unwrap(span) ELSE unwrap(span)
        IN  /\ Fields.hours >= 0
            /\ Fields.minutes \in 0..59
            /\ Fields.seconds \in 0..59
            /\ Fields.millis \in 0..999
            /\ Fields.hours * 3600000 + Fields.minutes * 60000
                   + Fields.seconds * 1000 + Fields.millis = a

\* the tokens of the pattern of the last call, and the output after k of them
Tokens == tokenize(ret_pattern)
OutAfter(k) == render_tokens(Tokens, k, Fields)

\* C24: a literal pattern character (anything other than h, m, s, d) is
\* appended run-length times only if the output is already non-empty, so the
\* string format_time_span returns never begins with a literal separator, for
\* any pattern and duration, and no pattern character makes the call fail
\* (every token yields an output, and the slice of the three-digit fraction
\* a `d` run takes stays inside it).
C24_NoLeadingLiteral ==
    RenderedSpan =>
        /\ \A k \in 1..Len(Tokens) :
              /\ Tokens[k].ch \notin {"h", "m", "s", "d"} =>
                    OutAfter(k) = IF OutAfter(k - 1) # <<>>
                                  THEN OutAfter(k - 1) \o repeat(Tokens[k].ch, Tokens[k].count)
                                  ELSE <<>>
              /\ Tokens[k].ch = "d" =>
                    /\ Len(zero_padded(Fields.millis, FRACTION_DIGITS)) = FRACTION_DIGITS
                    /\ Len(OutAfter(k)) = Len(OutAfter(k - 1)) + Tokens[k].count
        /\ out = OutAfter(Len(Tokens))
        /\ out # <<>> => out[1] \in {DigitChars[i] : i \in 1..Len(DigitChars)}

\* 1 min 1.230 s rendered with "::m..s": the leading colons are dropped, the
\* dots after the minutes are kept
C24_Witness ==
    /\ RenderedSpan
    /\ ret_pattern = <<":", ":", "m", ".", ".", "s">>
    /\ unwrap(span) = 61230
    /\ out = <<"1", ".", ".", "0", "1">>

(***************************************************************************)
(* A TimeFormat whose public fields are assigned between calls             *)
(***************************************************************************)
\* the values an assignment can give to each public field
FieldValues ==
    [show_hours |-> BOOLEAN, show_minutes |-> BOOLEAN, show_seconds |-> BOOLEAN,
     show_decimals |-> BOOLEAN, decimal_places |-> {0, 2}, dynamic |-> BOOLEAN]

InitEdit ==
    /\ format = TimeFormatDefault
    /\ op = "init"
    /\ total_millis = None
    /\ computed = FALSE
    /\ ret_pattern = <<>>
    /\ span = None
    /\ out = <<>>
    /\ UiIdle

\* format.<field> = value: the fields are `pub`, the assignment touches
\* nothing else (cached_pattern is private and has no setter)
SetField(field, value) ==
    /\ format[field] # value
    /\ format' = [format EXCEPT ![field] = value]
    /\ op' = "set_field"
    /\ total_millis' = None
    /\ computed' = FALSE
    /\ ret_pattern' = <<>>
    /\ span' = None
    /\ out' = <<>>
    /\ UNCHANGED ui_vars

NextEdit ==
    \/ \E field \in DOMAIN FieldValues : \E value \in FieldValues[field] :
          SetField(field, value)
    \/ \E ms_opt \in OptionOf({0, 60000, 3600000}) : GetPattern(ms_opt)

SpecEdit == InitEdit /\ [][NextEdit]_vars

\* C25: with dynamic=false, get_pattern always returns the pattern that
\* compute_pattern builds from the current values of show_hours,
\* show_minutes, show_seconds, show_decimals and decimal_places, also after a
\* public field was changed, or dynamic was switched from true to false,
\* following an earlier get_pattern call.
C25_StaticFollowsFields ==
    (op = "get_pattern" /\ ~format.dynamic) =>
        ret_pattern = compute_pattern(format, total_millis)

\* the segment at `index` was skipped: no split time recorded for it
Skipped(index) == is_none(timer.segments[index + 1].split_time.real_time)

\* C27: a segment before the current index that has no recorded split time
\* (its split time is read as zero) and a nonzero gold duration is never
\* tagged goldsplit by build_splits_list.
C27_SkippedNeverGold ==
    (op = "build_splits_list" /\ ~panicked) =>
        \A k \in 1..Len(calls) :
            (/\ calls[k].site = "finished"
             /\ Skipped(IndexOfCall(k))
             /\ calls[k].goldsplit_duration # 0)
                => /\ "goldsplit" \notin Chars(calls[k].classes)
                   /\ "goldsplit" \notin Chars(rows[IndexOfCall(k) + 1].label_classes)

\* the signed diff of the segment before the current one, in the timer state
\* of the last update: its segment time in this attempt minus its segment
\* time in the comparison
PreviousSegmentDiff ==
    (SplitTimeAt(PreviousIndex) - SplitTimeAt(PreviousIndex - 1))
        - abs(ComparisonAt(PreviousIndex) - ComparisonAt(PreviousIndex - 1))

\* C28: after PrevSegmentDiffInfo::update returns, the value label is either
\* empty or the signed formatted diff of the segment at
\* current_split_index - 1 in the timer state passed to that call; it never
\* keeps a value written by an earlier update for another segment.
C28_LabelEmptyOrCurrentDiff ==
    (op \in {"info_new", "info_update"} /\ label.owner = "PrevSegmentDiffInfo") =>
        \/ label.text = <<>>
        \/ /\ is_some(timer.current_split_index)
           /\ unwrap(timer.current_split_index) > 0
           /\ label.text = format_signed(PreviousSegmentDiff)

\* the pattern of the same flags and decimal_places with dynamic = false
StaticPattern == compute_pattern([format EXCEPT !.dynamic = FALSE], total_millis)

\* the last call resolved a dynamic pattern, seconds shown, for a duration
\* under one minute
UnderOneMinute ==
    /\ CalledGetPattern
    /\ format.dynamic
    /\ format.show_seconds
    /\ is_some(total_millis)
    /\ unwrap(total_millis) \in 0..(MS_PER_MINUTE - 1)

\* C30: for show_seconds = true and every duration 0 <= ms < 60_000,
\* rendering ms with the pattern resolved in dynamic mode gives exactly the
\* string that the static pattern of the same flags and decimal_places gives:
\* hiding hours and minutes under one minute never changes the text.
C30_DynamicUnderMinuteSameText ==
    UnderOneMinute =>
        /\ computed
        /\ format_time_span(unwrap(total_millis), ret_pattern)
              = format_time_span(unwrap(total_millis), StaticPattern)
        /\ (Rendered /\ unwrap(span) >= 0) =>
              /\ unwrap(total_millis)
                    \in {unwrap(span), total_milliseconds(unwrap(span))}
              /\ out = format_time_span(unwrap(span), StaticPattern)

\* 59.5 s rendered by a dynamic h:m:s.dd format: the pattern is "s.dd", not
\* the static one, and the text is "59.50"
C30_Witness ==
    /\ UnderOneMinute
    /\ op = "format_segment_time"
    /\ format.show_hours /\ format.show_minutes /\ format.show_decimals
    /\ format.decimal_places = 2
    /\ span = Some(59500)
    /\ ret_pattern = <<"s", ".", "d", "d">>
    /\ ret_pattern # StaticPattern
    /\ out = <<"5", "9", ".", "5", "0">>

(***************************************************************************)
(* ui/timer/timer.rs: the refresh loop                                     *)
(*                                                                         *)
(* Here the timer is read through its phase, current_split_index,          *)
(* current_comparison and the number of segments of its run.  The closure  *)
(* runs every 16 ms on the main thread with the timer read-locked and the  *)
(* configuration write-locked from its first line to its last, so a tick   *)
(* is one step; the hotkey system and the auto splitter change the timer   *)
(* between ticks.  The centre box is built anew from the timer on every    *)
(* tick and keeps nothing from one tick to the next.                       *)
(*                                                                         *)
(* build_ui reads the timer under separate lock acquisitions: for the rows *)
(* (line 66), for rendered_comparison (line 94) and for rendered_phase     *)
(* (line 95).  The hotkey system exists before build_ui runs, so a timer   *)
(* operation can fall between any two of them; refresh.pc is the place     *)
(* build_ui has reached: "new", "list_built", "comparison_recorded", and   *)
(* "loop" once the closure is installed.  build_ui holds the configuration *)
(* throughout, and the load-splits action and the list exist for the user  *)
(* only afterwards.                                                        *)
(***************************************************************************)
\* the number of segments of the run
NumSegments == 4

Comparisons == {"Personal Best", "Best Segments"}

SplitsPaths == {"a.lss", "b.lss"}

\* c.general.splits.clone().unwrap_or_default()
splits_or_default(sp) == IF is_some(sp) THEN unwrap(sp) ELSE ""

\* the timer as the refresh loop reads it
RefreshTimer(phase, index, comparison) ==
    [phase |-> phase, current_split_index |-> index,
     current_comparison |-> comparison, segments |-> NumSegments]

\* Timer::start
timer_start(tm) ==
    IF tm.phase = "NotRunning"
    THEN [tm EXCEPT !.phase = "Running", !.current_split_index = Some(0)]
    ELSE tm

\* Timer::split
timer_split(tm) ==
    IF tm.phase = "Running"
    THEN LET next == unwrap(tm.current_split_index) + 1
         IN  [tm EXCEPT !.current_split_index = Some(next),
                        !.phase = IF next = tm.segments THEN "Ended" ELSE "Running"]
    ELSE tm

\* Timer::skip_split
timer_skip_split(tm) ==
    IF tm.phase \in {"Running", "Paused"}
       /\ unwrap(tm.current_split_index) + 1 < tm.segments
    THEN [tm EXCEPT !.current_split_index = Some(unwrap(tm.current_split_index) + 1)]
    ELSE tm

\* Timer::undo_split
timer_undo_split(tm) ==
    IF tm.phase # "NotRunning" /\ unwrap(tm.current_split_index) > 0
    THEN [tm EXCEPT !.current_split_index = Some(unwrap(tm.current_split_index) - 1),
                    !.phase = IF tm.phase = "Ended" THEN "Running" ELSE tm.phase]
    ELSE tm

\* Timer::reset
timer_reset(tm) ==
    IF tm.phase # "NotRunning"
    THEN [tm EXCEPT !.phase = "NotRunning", !.current_split_index = None]
    ELSE tm

\* Timer::pause / Timer::resume
timer_toggle_pause(tm) ==
    IF tm.phase = "Running" THEN [tm EXCEPT !.phase = "Paused"]
    ELSE IF tm.phase = "Paused" THEN [tm EXCEPT !.phase = "Running"]
    ELSE tm

\* data_model::compute_segment_row(&t, &mut c, current, index, segment) handed
\* to widgets::split_row.  Neither module is part of the sources at hand; the
\* row is read as build_splits_list of ui/ui.rs builds it: it is the current
\* one, marked current-segment and showing the running values, iff index is
\* the current index it was computed for.
compute_segment_row(tm, current, index) ==
    [segment_classes |-> IF current = Some(index) THEN <<"current-segment">> ELSE <<>>,
     current |-> current,
     selected |-> FALSE]

\* data_model::compute_split_rows(timer, config): one row per segment, computed
\* for the timer's current split index
compute_split_rows(tm) ==
    [i \in 1..tm.segments |-> compute_segment_row(tm, tm.current_split_index, i - 1)]

\* TimerUI::build_splits_list of ui/timer/timer.rs
refresh_build_splits_list(tm) == compute_split_rows(tm)

\* usize::saturating_sub(1)
saturating_sub_one(n) == IF n = 0 THEN 0 ELSE n - 1

\* Mutant of needs_rebuild: a change of the timer phase is not looked at.
needs_rebuild_ignores_phase(rf, tm, sp) ==
    \/ rf.rendered_comparison # tm.current_comparison
    \/ rf.rendered_splits # splits_or_default(sp)

\* lines 107-109: render_all_segments as the tick computes it
needs_rebuild(rf, tm, sp) ==
    \/ rf.rendered_comparison # tm.current_comparison
    \/ rf.rendered_phase # tm.phase
    \/ rf.rendered_splits # splits_or_default(sp)

\* lines 133-139: the index of a selected row, the last one when several
selected_index(rws) ==
    LET chosen == {i \in 1..Len(rws) : rws[i].selected}
    IN  IF chosen = {} THEN None
        ELSE Some((CHOOSE i \in chosen : \A j \in chosen : j <= i) - 1)

\* lines 128-161: the list is emptied and built anew; with the run ended the
\* row selected before (or the last row) is selected, otherwise none
rebuild_rows(rws, tm) ==
    LET built == refresh_build_splits_list(tm)
        chosen == IF is_some(selected_index(rws))
                  THEN unwrap(selected_index(rws))
                  ELSE saturating_sub_one(tm.segments)
    IN  IF tm.phase = "Ended"
        THEN [i \in 1..Len(built) |-> [built[i] EXCEPT !.selected = (i - 1 = chosen)]]
        ELSE built

\* lines 162-188: the rows at the current index, before it and after it are
\* removed and computed anew; SelectionMode::None drops the selection
update_rows(rws, tm) ==
    LET cur == IF is_some(tm.current_split_index) THEN unwrap(tm.current_split_index) ELSE 0
    IN  [i \in 1..Len(rws) |->
            IF i <= tm.segments
               /\ (i - 1 = cur \/ i - 1 = saturating_sub_one(cur) \/ i - 1 = cur + 1)
            THEN compute_segment_row(tm, Some(cur), i - 1)
            ELSE [rws[i] EXCEPT !.selected = FALSE]]

\* the closure given to glib::timeout_add_local, lines 103-203
refresh_tick(rf, tm, sp, rws) ==
    LET render_all_segments == needs_rebuild(rf, tm, sp)
        branch == IF render_all_segments THEN "rebuild"
                  ELSE IF tm.phase = "Running" THEN "update"
                  ELSE "none"
    IN  [rows |-> CASE branch = "rebuild" -> rebuild_rows(rws, tm)
                    [] branch = "update" -> update_rows(rws, tm)
                    [] OTHER -> rws,
         refresh |-> [rendered_comparison |-> tm.current_comparison,
                      rendered_phase |-> tm.phase,
                      rendered_splits |-> splits_or_default(sp),
                      render_all_segments |-> (branch = "update"),
                      branch |-> branch,
                      pc |-> "loop"]]

\* the formatter and the label are not looked at
RefreshFrame ==
    /\ format = TimeFormatDefault
    /\ total_millis = None
    /\ computed = FALSE
    /\ ret_pattern = <<>>
    /\ span = None
    /\ out = <<>>
    /\ calls = <<>>
    /\ panicked = FALSE
    /\ label = new_value_label("none")

\* TuxSplit::new has run: the timer is shared with the hotkey system and the
\* auto splitter, build_ui has not started
InitRefresh ==
    /\ RefreshFrame
    /\ op = "new"
    /\ timer = RefreshTimer("NotRunning", None, "Personal Best")
    /\ splits \in {None, Some("a.lss")}
    /\ rows = <<>>
    /\ refresh = NoRefresh

refresh_unchanged ==
    UNCHANGED <<format, total_millis, computed, ret_pattern, span, out,
                calls, panicked, label>>

\* build_ui, lines 62-69: the list is built from the timer as it is now
BuildList ==
    /\ refresh.pc = "new"
    /\ rows' = refresh_build_splits_list(timer)
    /\ refresh' = [refresh EXCEPT !.pc = "list_built"]
    /\ op' = "build_ui"
    /\ UNCHANGED <<timer, splits>>
    /\ refresh_unchanged

\* build_ui, line 94: rendered_comparison is read from the timer
RecordComparison ==
    /\ refresh.pc = "list_built"
    /\ refresh' = [refresh EXCEPT !.rendered_comparison = timer.current_comparison,
                                  !.pc = "comparison_recorded"]
    /\ op' = "build_ui"
    /\ UNCHANGED <<timer, splits, rows>>
    /\ refresh_unchanged

\* build_ui, lines 95-103: rendered_phase is read from the timer,
\* render_all_segments and rendered_splits are set, the closure is installed
RecordPhase ==
    /\ refresh.pc = "comparison_recorded"
    /\ refresh' = [refresh EXCEPT !.rendered_phase = timer.phase,
                                  !.render_all_segments = TRUE,
                                  !.rendered_splits = splits_or_default(splits),
                                  !.pc = "loop"]
    /\ op' = "build_ui"
    /\ UNCHANGED <<timer, splits, rows>>
    /\ refresh_unchanged

\* one run of the refresh closure
Tick ==
    /\ refresh.pc = "loop"
    /\ \E got \in {refresh_tick(refresh, timer, splits, rows)} :
        /\ op' = "tick"
        /\ rows' = got.rows
        /\ refresh' = got.refresh
        /\ UNCHANGED <<timer, splits>>
        /\ refresh_unchanged

\* an operation of the hotkey system or of the auto splitter on the shared
\* timer, between two ticks
TimerOp(after) ==
    /\ after # timer
    /\ timer' = after
    /\ op' = "timer"
    /\ UNCHANGED <<rows, refresh, splits>>
    /\ refresh_unchanged

Start == TimerOp(timer_start(timer))

Split == TimerOp(timer_split(timer))

SkipSplit == TimerOp(timer_skip_split(timer))

UndoSplit == TimerOp(timer_undo_split(timer))

Reset == TimerOp(timer_reset(timer))

TogglePause == TimerOp(timer_toggle_pause(timer))

\* Timer::set_current_comparison
SetCurrentComparison(comparison) ==
    TimerOp([timer EXCEPT !.current_comparison = comparison])

\* the load-splits action, lines 295-310: the path is stored; if the file
\* parses, set_run replaces the run and the timer is reset
LoadSplits(path, parsed) ==
    /\ refresh.pc = "loop"
    /\ splits' = Some(path)
    /\ timer' = IF parsed THEN timer_reset(timer) ELSE timer
    /\ op' = "load_splits"
    /\ UNCHANGED <<rows, refresh>>
    /\ refresh_unchanged

\* a click on a row of the list while rows can be selected
SelectRow(i) ==
    /\ refresh.pc = "loop"
    /\ refresh.branch # "update"
    /\ ~rows[i].selected
    /\ rows' = [j \in 1..Len(rows) |-> [rows[j] EXCEPT !.selected = (j = i)]]
    /\ op' = "select_row"
    /\ UNCHANGED <<timer, refresh, splits>>
    /\ refresh_unchanged

NextRefresh ==
    \/ BuildList
    \/ RecordComparison
    \/ RecordPhase
    \/ Tick
    \/ Start
    \/ Split
    \/ SkipSplit
    \/ UndoSplit
    \/ Reset
    \/ TogglePause
    \/ \E comparison \in Comparisons : SetCurrentComparison(comparison)
    \/ \E path \in SplitsPaths, parsed \in BOOLEAN : LoadSplits(path, parsed)
    \/ \E i \in 1..NumSegments : SelectRow(i)

SpecRefresh == InitRefresh /\ [][NextRefresh]_vars

(***************************************************************************)
(* Properties of the refresh loop                                          *)
(***************************************************************************)
\* the three values of the timer and the configuration a tick compares
CurrentValues == <<timer.current_comparison, timer.phase, splits_or_default(splits)>>

\* the three values recorded by the last tick (or by build_ui)
RecordedValues ==
    <<refresh.rendered_comparison, refresh.rendered_phase, refresh.rendered_splits>>

\* C29: a tick performs a full rebuild of the segment list iff the current
\* comparison, the timer phase or the configured splits path differs from the
\* value recorded at the end of the previous tick; at the end of every tick
\* the three recorded values equal the current ones, so two consecutive ticks
\* with no change between them never both rebuild.
C29_RebuildIffChanged ==
    [][op' = "tick" =>
          /\ (refresh'.branch = "rebuild") <=> (RecordedValues # CurrentValues)
          /\ RecordedValues' = CurrentValues'
          /\ (op = "tick" /\ refresh.branch = "rebuild") => refresh'.branch # "rebuild"]_vars

\* a tick has rebuilt the list because the phase changed: the timer was
\* started after the last tick, comparison and splits path are as recorded
C29_Witness ==
    /\ op = "tick"
    /\ refresh.branch = "rebuild"
    /\ timer.phase = "Running"
    /\ timer.current_split_index = Some(0)
    /\ timer.current_comparison = "Personal Best"
    /\ RecordedValues = CurrentValues

\* the current split index of the running timer
CurrentIndex == unwrap(timer.current_split_index)

\* C26: after every refresh tick in which the timer is running, the row at
\* the timer's current split index, and only that row, carries the
\* current-segment marker and the live values, for every interleaving of
\* timer operations between two ticks, also when the current index moves by
\* two or more between ticks.
C26_OnlyCurrentRowMarked ==
    (op = "tick" /\ timer.phase = "Running") =>
        /\ rows[CurrentIndex + 1].current = Some(CurrentIndex)
        /\ \A i \in 1..Len(rows) :
              ("current-segment" \in Chars(rows[i].segment_classes)) <=> (i - 1 = CurrentIndex)

====
